---------------------------- MODULE Spec2Model ----------------------------
(***************************************************************************)
(* A model of the SansScript language server's document analysis pipeline: *)
(* the lexer (parser.py tokenize_line), the document model builder         *)
(* (parser.py parse_document) and the diagnostics engine (analyzer.py      *)
(* analyze).                                                               *)
(*                                                                         *)
(* Text is modelled as a sequence of Unicode code points, so the lexer's   *)
(* regular expressions become range tests and the vocabulary of            *)
(* symbols.py becomes sequences of code points.  Columns and line numbers  *)
(* are 0-based as in the source; TLA+ sequences are 1-based, so character  *)
(* text[i] of the source is text[i + 1] here.                              *)
(***************************************************************************)
EXTENDS Integers, Sequences, FiniteSets, TLC

VARIABLES
    source,        \* the text handed to parse_document
    pc,            \* position in parse_document / analyze
    raw_lines,     \* parse_document: raw_lines
    all_tokens,    \* parse_document: all_tokens
    line_indents,  \* parse_document: line_indents
    functions,     \* parse_document: functions (insertion-ordered dict)
    variables,     \* parse_document: variables (insertion-ordered dict)
    current_func,  \* parse_document: current_func (name of the FuncDef, or NoFunc)
    func_indent,   \* parse_document: func_indent
    lineno,        \* loop index of the loop in progress
    doc,           \* the ParsedDocument returned by parse_document
    diags,         \* the list returned by analyze
    run,           \* number of the build in progress (1 = first)
    hist,          \* history: the first build's text, tables and diagnostics, and
                   \* the text of the build before the current one
    sem_data,      \* the answer to the latest semantic-tokens request
    doc_cache,     \* server.py _doc_cache: per URI, <<>> or <<the ParsedDocument>>
    published,     \* per URI, <<>> or <<the diagnostics list published last>>
    opened,        \* history: the URIs opened and not closed since
    notified,      \* history: per URI, the last notification that carried a text
                   \* or closed the document
    request,       \* the latest hover / definition request: kind and position
    response       \* its answer: <<>> for None, else a one-element sequence

\* the build in progress and its results
build == <<source, pc, raw_lines, all_tokens, line_indents, functions, variables,
           current_func, func_indent, lineno, doc, diags, run, hist>>

\* what the requests served after a build hold
served == <<sem_data, doc_cache, published, opened, notified, request, response>>

vars == <<source, pc, raw_lines, all_tokens, line_indents, functions, variables,
          current_func, func_indent, lineno, doc, diags, run, hist, served>>

-----------------------------------------------------------------------------
(* Generic helpers *)

Max(a, b) == IF a >= b THEN a ELSE b

\* Python's text[a:b] for 0 <= a <= b <= len(text)
Slice(text, a, b) == SubSeq(text, a + 1, b)

\* Python's s.startswith(p)
StartsWith(s, p) == Len(p) <= Len(s) /\ SubSeq(s, 1, Len(p)) = p

\* Python's s.endswith(<<c>>)
EndsWithChar(s, c) == Len(s) > 0 /\ s[Len(s)] = c

\* all sequences over S of length at most n
AllStrings(S, n) == UNION {[1..k -> S] : k \in 0..n}

RECURSIVE Flatten(_)
Flatten(ss) == IF ss = <<>> THEN <<>> ELSE Head(ss) \o Flatten(Tail(ss))

-----------------------------------------------------------------------------
(* symbols.py: the closed vocabularies, as code-point sequences *)

KW_IF       == <<2351, 2342, 2367>>
KW_ELIF     == <<2309, 2341, 2357, 2366, 95, 2351, 2342, 2367>>
KW_ELSE     == <<2309, 2344, 2381, 2351, 2341, 2366>>
KW_WHILE    == <<2351, 2366, 2357, 2340, 2381>>
KW_FUNCTION == <<2325, 2366, 2352, 2381, 2351, 2350, 2381>>
KW_RETURN   == <<2346, 2381, 2352, 2340, 2367, 2342, 2342, 2366, 2340, 2367>>
KW_BREAK    == <<2357, 2367, 2352, 2350>>
KW_CONTINUE == <<2309, 2344, 2369, 2357, 2352, 2381, 2340, 2351>>

KEYWORD_NAMES ==
    {KW_IF, KW_ELIF, KW_ELSE, KW_WHILE, KW_FUNCTION, KW_RETURN, KW_BREAK, KW_CONTINUE}

CONSTANT_NAMES ==
    {<<2360, 2340, 2381, 2351, 2350, 2381>>,
     <<2309, 2360, 2340, 2381, 2351, 2350, 2381>>}

LOGICAL_OP_NAMES == {<<2330>>, <<2357, 2366>>, <<2344>>}

BI_PRINT == <<2350, 2369, 2342, 2381, 2352, 2351>>

BUILTIN_NAMES ==
    {BI_PRINT,
     <<2344, 2367, 2352, 2381, 2327, 2350>>,
     <<2342, 2368, 2352, 2381, 2328, 2340, 2366>>,
     <<2351, 2379, 2332, 2351>>,
     <<2313, 2346, 2346, 2366, 2336>>,
     <<2309, 2344, 2381, 2357, 2375, 2359, 2351>>,
     <<2357, 2352, 2381, 2339, 2366, 2329, 2381, 2325>>,
     <<2309, 2306, 2325, 2357, 2352, 2381, 2339>>,
     <<2346, 2366, 2336, 2381, 2351>>,
     <<2346, 2370, 2352, 2381, 2339, 2366, 2329, 2381, 2325>>,
     <<2346, 2370, 2352, 2381, 2339, 2366, 2329, 2381, 2325, 95, 2346, 2366,
       2336, 95, 2360, 2375>>,
     <<2357, 2367, 2349, 2332>>,
     <<2360, 2334, 2381, 2330, 2367, 2325, 2366, 95, 2346, 2336>>}

BLOCK_OPENERS == {KW_IF, KW_ELIF, KW_ELSE, KW_WHILE, KW_FUNCTION}

-----------------------------------------------------------------------------
(* parser.py: the lexer *)

\* _IDENT_START: [\u0900-\u097F_a-zA-Z]
IDENT_START == (2304..2431) \cup {95} \cup (97..122) \cup (65..90)
\* _IDENT_PART: [\u0900-\u097F_a-zA-Z0-9\u0966-\u096F]
IDENT_PART == IDENT_START \cup (48..57) \cup (2406..2415)
\* a digit class of the ASCII digits only
DIGIT_START_ASCII == 48..57
\* _DIGIT_START, _DIGIT_PART: [0-9\u0966-\u096F]
DIGIT_START == (48..57) \cup (2406..2415)
DIGIT_PART == (48..57) \cup (2406..2415)

\* "==", "!=", "<=", ">="
OPERATORS_DOUBLE == {<<61, 61>>, <<33, 61>>, <<60, 61>>, <<62, 61>>}
\* "+", "-", "*", "/", "%", "=", "<", ">"
OPERATORS_SINGLE == {43, 45, 42, 47, 37, 61, 60, 62}

\* ' ' and '\t'
BLANKS == {32, 9}

\* the Token dataclass
Token(type, value, line_no, col, end_col) ==
    [type |-> type, value |-> value, line |-> line_no, col |-> col, end_col |-> end_col]

\* while i < length and text[i] in S: i += 1
RunEnd(text, i, S) ==
    CHOOSE j \in i..Len(text) :
        /\ \A k \in i..(j - 1) : text[k + 1] \in S
        /\ (j = Len(text) \/ text[j + 1] \notin S)

\* line 117: the end column of the comment token that starts at i
CommentEndShort(text, i) == i + 1
CommentEnd(text, i) == Len(text)

\* the end of the string token that starts at i: through the closing quote,
\* or the end of the line when the string is not terminated
StringEnd(text, i) ==
    LET j == CHOOSE j \in (i + 1)..Len(text) :
                 /\ \A k \in (i + 1)..(j - 1) : text[k + 1] # 34
                 /\ (j = Len(text) \/ text[j + 1] = 34)
    IN  IF j < Len(text) THEN j + 1 ELSE j

\* the classification of an identifier run
WordType(word) ==
    IF word \in KEYWORD_NAMES THEN "KEYWORD"
    ELSE IF word \in BUILTIN_NAMES THEN "BUILTIN"
    ELSE IF word \in CONSTANT_NAMES THEN "CONSTANT"
    ELSE IF word \in LOGICAL_OP_NAMES THEN "LOGICAL_OP"
    ELSE "IDENTIFIER"

\* the type of a single-character structural symbol, or UNKNOWN
SymbolType(ch) ==
    CASE ch = 40 -> "PAREN_OPEN"
      [] ch = 41 -> "PAREN_CLOSE"
      [] ch = 91 -> "BRACKET_OPEN"
      [] ch = 93 -> "BRACKET_CLOSE"
      [] ch = 44 -> "COMMA"
      [] ch = 58 -> "COLON"
      [] OTHER   -> "UNKNOWN"

\* one iteration of tokenize_line's loop: the token appended at cursor i
NextToken(text, i, line_no) ==
    LET ch == text[i + 1]
        length == Len(text)
    IN  IF ch = 35
            THEN Token("COMMENT", Slice(text, i, length), line_no, i, CommentEnd(text, i))
        ELSE IF ch \in BLANKS
            THEN LET e == RunEnd(text, i, BLANKS)
                 IN  Token("WHITESPACE", Slice(text, i, e), line_no, i, e)
        ELSE IF ch = 34
            THEN LET e == StringEnd(text, i)
                 IN  Token("STRING", Slice(text, i, e), line_no, i, e)
        ELSE IF ch \in DIGIT_START
            THEN LET e == RunEnd(text, i, DIGIT_PART)
                 IN  Token("NUMBER", Slice(text, i, e), line_no, i, e)
        ELSE IF ch \in IDENT_START
            THEN LET e == RunEnd(text, i + 1, IDENT_PART)
                 IN  Token(WordType(Slice(text, i, e)), Slice(text, i, e), line_no, i, e)
        ELSE IF i + 1 < length /\ Slice(text, i, i + 2) \in OPERATORS_DOUBLE
            THEN Token("OPERATOR", Slice(text, i, i + 2), line_no, i, i + 2)
        ELSE IF ch \in OPERATORS_SINGLE
            THEN Token("OPERATOR", <<ch>>, line_no, i, i + 1)
        ELSE Token(SymbolType(ch), <<ch>>, line_no, i, i + 1)

RECURSIVE TokenizeFrom(_, _, _)
TokenizeFrom(text, i, line_no) ==
    IF i >= Len(text) THEN <<>>
    ELSE LET t == NextToken(text, i, line_no)
         IN  IF t.type = "COMMENT" THEN <<t>>
             ELSE <<t>> \o TokenizeFrom(text, t.end_col, line_no)

tokenize_line(text, line_no) == TokenizeFrom(text, 0, line_no)

\* measure_indent: leading spaces count 1, leading tabs count 4
RECURSIVE measure_indent(_)
measure_indent(line) ==
    IF line = <<>> THEN 0
    ELSE IF Head(line) = 32 THEN 1 + measure_indent(Tail(line))
    ELSE IF Head(line) = 9 THEN 4 + measure_indent(Tail(line))
    ELSE 0

\* _significant_tokens: drop whitespace and comment tokens
RECURSIVE significant_tokens(_)
significant_tokens(toks) ==
    IF toks = <<>> THEN <<>>
    ELSE (IF Head(toks).type \in {"WHITESPACE", "COMMENT"} THEN <<>> ELSE <<Head(toks)>>)
         \o significant_tokens(Tail(toks))

-----------------------------------------------------------------------------
(* parser.py: parse_document and its helpers, as data *)

NoFunc == <<>>                               \* current_func is None
GLOBAL == <<103, 108, 111, 98, 97, 108>>     \* the scope string "global"

\* source.split('\n')
RECURSIVE SplitNewline(_)
SplitNewline(text) ==
    IF \A k \in 1..Len(text) : text[k] # 10 THEN <<text>>
    ELSE LET p == CHOOSE q \in 1..Len(text) :
                      text[q] = 10 /\ \A k \in 1..(q - 1) : text[k] # 10
         IN  <<SubSeq(text, 1, p - 1)>> \o SplitNewline(SubSeq(text, p + 1, Len(text)))

\* lines 233-237: split, drop one trailing empty line, never return no line
RawLinesKeepTrailing(text) == SplitNewline(text)
RawLines(text) ==
    LET split == SplitNewline(text)
        dropped == IF split[Len(split)] = <<>>
                   THEN SubSeq(split, 1, Len(split) - 1) ELSE split
    IN  IF dropped = <<>> THEN << <<>> >> ELSE dropped

\* dict lookups on the insertion-ordered tables
FuncIndex(funcs, name) ==
    IF \E k \in 1..Len(funcs) : funcs[k].name = name
    THEN CHOOSE k \in 1..Len(funcs) : funcs[k].name = name
    ELSE 0

HasKey(vs, key) == \E k \in 1..Len(vs) : vs[k].key = key

VarAt(vs, key) == vs[CHOOSE k \in 1..Len(vs) : vs[k].key = key]

\* functions[fd.name] = fd: a new key is appended, an existing key keeps its place
PutFunc(funcs, fd) ==
    LET k == FuncIndex(funcs, fd.name)
    IN  IF k = 0 THEN Append(funcs, fd) ELSE [funcs EXCEPT ![k] = fd]

\* current_func.end_line = n, on the FuncDef object the table holds
SetEndLine(funcs, name, n) ==
    LET k == FuncIndex(funcs, name)
    IN  [funcs EXCEPT ![k].end_line = n]

\* the ParamInfo of every identifier token of a token sequence
RECURSIVE ParamInfos(_)
ParamInfos(toks) ==
    IF toks = <<>> THEN <<>>
    ELSE (IF Head(toks).type = "IDENTIFIER"
          THEN <<[name |-> Head(toks).value, line |-> Head(toks).line,
                  col |-> Head(toks).col]>>
          ELSE <<>>) \o ParamInfos(Tail(toks))

\* a header whose open parenthesis must directly follow the name
OpenParensAdjacent(sig) == {k \in {3} : k <= Len(sig) /\ sig[k].type = "PAREN_OPEN"}
\* lines 308-312: the positions, from the third significant token on, that hold
\* an open parenthesis
OpenParens(sig) == {k \in 3..Len(sig) : sig[k].type = "PAREN_OPEN"}

\* _parse_func_header: <<>> for None, else a one-element sequence holding the FuncDef
parse_func_header(sig, line_no, indent) ==
    IF Len(sig) < 4 THEN <<>>
    ELSE IF sig[2].type # "IDENTIFIER" THEN <<>>
    ELSE LET opens == OpenParens(sig)
         IN  IF opens = {} THEN <<>>
             ELSE LET paren_idx == CHOOSE k \in opens : \A m \in opens : k <= m
                      closes == {k \in (paren_idx + 1)..Len(sig) :
                                    sig[k].type = "PAREN_CLOSE"}
                      stop == IF closes = {} THEN Len(sig) + 1
                              ELSE CHOOSE k \in closes : \A m \in closes : k <= m
                  IN  <<[name |-> sig[2].value,
                         line |-> line_no,
                         col |-> sig[2].col,
                         end_line |-> line_no,
                         params |-> ParamInfos(SubSeq(sig, paren_idx + 1, stop - 1)),
                         body_indent |-> indent + 4]>>

\* lines 273-276: pre-register the parameters that are not yet in the table
RECURSIVE RegisterParams(_, _, _)
RegisterParams(vs, fname, params) ==
    IF params = <<>> THEN vs
    ELSE LET p == Head(params)
             key == fname \o <<58>> \o p.name
             vs1 == IF HasKey(vs, key) THEN vs
                    ELSE Append(vs, [key |-> key, name |-> p.name, line |-> p.line,
                                     col |-> p.col, scope |-> fname])
         IN  RegisterParams(vs1, fname, Tail(params))

\* an assignment detector that does not ask for anything after the '='
extract_assignment_bare(sig, line_no, indent, vs, cur) ==
    IF Len(sig) < 2 THEN vs
    ELSE IF sig[1].type = "IDENTIFIER" /\ sig[2].type = "OPERATOR" /\ sig[2].value = <<61>>
    THEN LET name == sig[1].value
             scope == IF cur # NoFunc THEN cur ELSE GLOBAL
             key == IF cur # NoFunc THEN scope \o <<58>> \o name ELSE name
         IN  IF HasKey(vs, key) THEN vs
             ELSE Append(vs, [key |-> key, name |-> name, line |-> line_no,
                              col |-> sig[1].col, scope |-> scope])
    ELSE vs

\* _extract_assignment: the variable table after the line
extract_assignment(sig, line_no, indent, vs, cur) ==
    IF Len(sig) < 3 THEN vs
    ELSE IF sig[1].type = "IDENTIFIER" /\ sig[2].type = "OPERATOR" /\ sig[2].value = <<61>>
    THEN LET name == sig[1].value
             scope == IF cur # NoFunc THEN cur ELSE GLOBAL
             key == IF cur # NoFunc THEN scope \o <<58>> \o name ELSE name
         IN  IF HasKey(vs, key) THEN vs
             ELSE Append(vs, [key |-> key, name |-> name, line |-> line_no,
                              col |-> sig[1].col, scope |-> scope])
    ELSE vs

-----------------------------------------------------------------------------
(* parser.py: parse_document, step by step *)

\* lines 241-242: the tables a build starts from
FreshFunctions == <<>>
StaleVariables == variables
FreshVariables == <<>>

\* lines 233-242
ParseBegin ==
    /\ pc = "start"
    /\ raw_lines' = RawLines(source)
    /\ all_tokens' = <<>>
    /\ line_indents' = <<>>
    /\ functions' = FreshFunctions
    /\ variables' = FreshVariables
    /\ lineno' = 0
    /\ pc' = "lex"
    /\ UNCHANGED <<source, current_func, func_indent, doc, diags, run, hist>>
    /\ UNCHANGED served

\* lines 244-250: one iteration of the lexing loop; after the last one,
\* current_func and func_indent are initialised for the second loop
LexLine ==
    /\ pc = "lex"
    /\ lineno < Len(raw_lines)
    /\ all_tokens' = Append(all_tokens, tokenize_line(raw_lines[lineno + 1], lineno))
    /\ line_indents' = Append(line_indents, measure_indent(raw_lines[lineno + 1]))
    /\ IF lineno + 1 = Len(raw_lines)
       THEN /\ pc' = "scan"
            /\ lineno' = 0
            /\ current_func' = NoFunc
            /\ func_indent' = -1
       ELSE /\ pc' = "lex"
            /\ lineno' = lineno + 1
            /\ UNCHANGED <<current_func, func_indent>>
    /\ UNCHANGED <<source, raw_lines, functions, variables, doc, diags, run, hist>>
    /\ UNCHANGED served

\* an indentation test that closes the function only strictly left of its header
AfterIndentTestStrict(st, indent, line_no) ==
    IF st.current_func = NoFunc THEN st
    ELSE IF indent < st.func_indent
    THEN [st EXCEPT !.functions = SetEndLine(st.functions, st.current_func, line_no - 1),
                    !.current_func = NoFunc,
                    !.func_indent = -1]
    ELSE [st EXCEPT !.functions = SetEndLine(st.functions, st.current_func, line_no)]

\* lines 259-265: the function table, current_func and func_indent after the
\* indentation test of a significant line
AfterIndentTest(st, indent, line_no) ==
    IF st.current_func = NoFunc THEN st
    ELSE IF indent <= st.func_indent
    THEN [st EXCEPT !.functions = SetEndLine(st.functions, st.current_func, line_no - 1),
                    !.current_func = NoFunc,
                    !.func_indent = -1]
    ELSE [st EXCEPT !.functions = SetEndLine(st.functions, st.current_func, line_no)]

\* lines 253-279: the body of the symbol loop for line line_no, on the loop's
\* state st = [functions, variables, current_func, func_indent]
ScanStep(st, toks, indent, line_no) ==
    LET sig == significant_tokens(toks)
    IN  IF sig = <<>> THEN st
        ELSE LET s1 == AfterIndentTest(st, indent, line_no)
                 header == IF sig[1].type = "KEYWORD" /\ sig[1].value = KW_FUNCTION
                           THEN parse_func_header(sig, line_no, indent) ELSE <<>>
             IN  IF header # <<>>
                 THEN [functions |-> PutFunc(s1.functions, header[1]),
                       variables |-> RegisterParams(s1.variables, header[1].name,
                                                    header[1].params),
                       current_func |-> header[1].name,
                       func_indent |-> indent]
                 ELSE [s1 EXCEPT !.variables =
                          extract_assignment(sig, line_no, indent, s1.variables,
                                             s1.current_func)]

\* lines 252-279: one iteration of the symbol loop
ScanLine ==
    /\ pc = "scan"
    /\ lineno < Len(all_tokens)
    /\ LET st == ScanStep([functions |-> functions, variables |-> variables,
                           current_func |-> current_func, func_indent |-> func_indent],
                          all_tokens[lineno + 1], line_indents[lineno + 1], lineno)
       IN  /\ functions' = st.functions
           /\ variables' = st.variables
           /\ current_func' = st.current_func
           /\ func_indent' = st.func_indent
    /\ lineno' = lineno + 1
    /\ pc' = IF lineno + 1 = Len(all_tokens) THEN "end" ELSE "scan"
    /\ UNCHANGED <<source, raw_lines, all_tokens, line_indents, doc, diags, run, hist>>
    /\ UNCHANGED served

\* lines 281-290
ParseEnd ==
    /\ pc = "end"
    /\ LET funcs == IF current_func # NoFunc
                    THEN SetEndLine(functions, current_func, Len(raw_lines) - 1)
                    ELSE functions
       IN  /\ functions' = funcs
           /\ doc' = [tokens |-> all_tokens, functions |-> funcs, variables |-> variables,
                      line_indents |-> line_indents, lines |-> raw_lines]
    /\ pc' = "parsed"
    /\ UNCHANGED <<source, raw_lines, all_tokens, line_indents, variables, current_func,
                   func_indent, lineno, diags, run, hist>>
    /\ UNCHANGED served


\* lines 252-279: the symbol loop from line k on, run to its end
RECURSIVE ScanAll(_, _, _, _)
ScanAll(st, toks, inds, k) ==
    IF k >= Len(toks) THEN st
    ELSE ScanAll(ScanStep(st, toks[k + 1], inds[k + 1], k), toks, inds, k + 1)

\* parse_document as the server calls it: one uninterrupted call
parse_document(text) ==
    LET ls == RawLines(text)
        toks == [k \in 1..Len(ls) |-> tokenize_line(ls[k], k - 1)]
        inds == [k \in 1..Len(ls) |-> measure_indent(ls[k])]
        st == ScanAll([functions |-> FreshFunctions, variables |-> <<>>,
                       current_func |-> NoFunc, func_indent |-> -1], toks, inds, 0)
        fs == IF st.current_func # NoFunc
              THEN SetEndLine(st.functions, st.current_func, Len(ls) - 1)
              ELSE st.functions
    IN  [tokens |-> toks, functions |-> fs, variables |-> st.variables,
         line_indents |-> inds, lines |-> ls]

-----------------------------------------------------------------------------
(* analyzer.py: the diagnostics engine *)

\* the characters str.strip() removes (str.isspace)
PY_WHITESPACE ==
    {9, 10, 11, 12, 13, 28, 29, 30, 31, 32, 133, 160, 5760, 8232, 8233, 8239, 8287, 12288}
    \cup (8192..8202)

\* line.strip()
Strip(line) ==
    IF \A k \in 1..Len(line) : line[k] \in PY_WHITESPACE THEN <<>>
    ELSE LET a == CHOOSE k \in 1..Len(line) :
                      line[k] \notin PY_WHITESPACE
                      /\ \A m \in 1..(k - 1) : line[m] \in PY_WHITESPACE
             b == CHOOSE k \in 1..Len(line) :
                      line[k] \notin PY_WHITESPACE
                      /\ \A m \in (k + 1)..Len(line) : line[m] \in PY_WHITESPACE
         IN  SubSeq(line, a, b)

\* a Diagnostic: range (line, col)-(line, end_col), message, severity
Diag(line_no, col, end_col, text, arg, severity) ==
    [line |-> line_no, col |-> col, end_col |-> end_col,
     message |-> [text |-> text, arg |-> arg], severity |-> severity]

\* a Diagnostic over _whole_line_range(line_no, text_of_line)
WholeLineDiag(line_no, line, text, arg, severity) ==
    Diag(line_no, 0, Len(line), text, arg, severity)

MSG_INDENT == "Expected indented block after previous statement."
MSG_FUNC_FORM == "Function definition must be: <function> name(params):"
MSG_FUNC_PAREN == "Missing closing parenthesis in function definition."
MSG_STMT_COLON == "'<keyword>' statement must end with ':'"
MSG_ELSE_COLON == "'<else>' must end with ':'"
MSG_ORPHAN_ELIF == "'<elif>' without a preceding '<if>' at the same indentation."
MSG_ORPHAN_ELSE == "'<else>' without a preceding '<if>' at the same indentation."
MSG_PARENS == "Unmatched parentheses on this line."
MSG_BRACKETS == "Unmatched brackets on this line."
MSG_UNDEFINED == "Undefined function '<name>'."

\* the lines every text-based check skips: blank after strip(), or a comment
IsSkipped(stripped) == stripped = <<>> \/ stripped[1] = 35

\* _line_opens_block
line_opens_block(stripped) == \E kw \in BLOCK_OPENERS : StartsWith(stripped, kw)

\* line 74: prev_is_block_opener after a line
OpensBlock(stripped) == EndsWithChar(stripped, 58) /\ line_opens_block(stripped)

\* line 66: the test that emits the warning
IndentViolatedStrict(prev_is_block_opener, indent, prev_indent) ==
    prev_is_block_opener /\ indent < prev_indent
IndentViolated(prev_is_block_opener, indent, prev_indent) ==
    prev_is_block_opener /\ indent <= prev_indent

\* _check_indentation, from line k on, with the loop's state
RECURSIVE CheckIndentationFrom(_, _, _, _)
CheckIndentationFrom(d, k, prev_indent, prev_is_block_opener) ==
    IF k >= Len(d.lines) THEN <<>>
    ELSE LET line == d.lines[k + 1]
             stripped == Strip(line)
             indent == d.line_indents[k + 1]
         IN  IF IsSkipped(stripped)
             THEN CheckIndentationFrom(d, k + 1, prev_indent, prev_is_block_opener)
             ELSE (IF IndentViolated(prev_is_block_opener, indent, prev_indent)
                   THEN <<WholeLineDiag(k, line, MSG_INDENT, <<>>, "Warning")>>
                   ELSE <<>>)
                  \o CheckIndentationFrom(d, k + 1, indent, OpensBlock(stripped))

check_indentation(d) == CheckIndentationFrom(d, 0, 0, FALSE)

\* _check_block_structure: the diagnostics of line k
BlockStructureOfLine(d, k) ==
    LET sig == significant_tokens(d.tokens[k + 1])
        line == d.lines[k + 1]
        line_text == Strip(line)
        has(c) == \E m \in 1..Len(line_text) : line_text[m] = c
        kw == IF sig # <<>> /\ sig[1].type = "KEYWORD" THEN sig[1].value ELSE <<>>
    IN  IF sig = <<>> THEN <<>>
        ELSE (IF kw = KW_FUNCTION
              THEN IF ~has(40) \/ ~EndsWithChar(line_text, 58)
                   THEN <<WholeLineDiag(k, line, MSG_FUNC_FORM, <<>>, "Error")>>
                   ELSE IF ~has(41)
                   THEN <<WholeLineDiag(k, line, MSG_FUNC_PAREN, <<>>, "Error")>>
                   ELSE <<>>
              ELSE <<>>)
          \o (IF kw \in {KW_IF, KW_WHILE, KW_ELIF} /\ ~EndsWithChar(line_text, 58)
              THEN <<WholeLineDiag(k, line, MSG_STMT_COLON, kw, "Error")>>
              ELSE <<>>)
          \o (IF kw = KW_ELSE /\ ~EndsWithChar(line_text, 58)
              THEN <<WholeLineDiag(k, line, MSG_ELSE_COLON, <<>>, "Error")>>
              ELSE <<>>)

RECURSIVE CheckBlockStructureFrom(_, _)
CheckBlockStructureFrom(d, k) ==
    IF k >= Len(d.tokens) THEN <<>>
    ELSE BlockStructureOfLine(d, k) \o CheckBlockStructureFrom(d, k + 1)

check_block_structure(d) == CheckBlockStructureFrom(d, 0)

\* last_if_indent is a dict from indentation to line number: a function here
DictPut(dict, key, val) ==
    [x \in DOMAIN dict \cup {key} |-> IF x = key THEN val ELSE dict[x]]
\* a removal that also drops the entries of every deeper indentation
DictDelDeeper(dict, key) == [x \in {y \in DOMAIN dict : y < key} |-> dict[x]]
\* lines 155, 157: del last_if_indent[indent] / last_if_indent.pop(indent, None)
DictDel(dict, key) == [x \in DOMAIN dict \ {key} |-> dict[x]]
EmptyDict == [x \in {} |-> 0]

\* line 150: a valid elif refreshes the entry of its indentation
ElifCloses(last_if_indent, indent, k) == DictDel(last_if_indent, indent)
ElifRefresh(last_if_indent, indent, k) == DictPut(last_if_indent, indent, k)

\* line 147: the test that takes the else branch of the orphan check
IsElseLine(stripped) == StartsWith(stripped, KW_ELSE) /\ EndsWithChar(stripped, 58)

\* _check_orphaned_elif_else: the body of the loop for line k, on the dict
\* last_if_indent; returns the dict after the line and the line's diagnostics
OrphanStep(last_if_indent, d, k) ==
    LET line == d.lines[k + 1]
        stripped == Strip(line)
        indent == d.line_indents[k + 1]
    IN  IF IsSkipped(stripped) THEN [open |-> last_if_indent, out |-> <<>>]
        ELSE IF StartsWith(stripped, KW_IF) /\ EndsWithChar(stripped, 58)
        THEN [open |-> DictPut(last_if_indent, indent, k), out |-> <<>>]
        ELSE IF StartsWith(stripped, KW_ELIF)
        THEN IF indent \notin DOMAIN last_if_indent
             THEN [open |-> last_if_indent,
                   out |-> <<WholeLineDiag(k, line, MSG_ORPHAN_ELIF, <<>>, "Error")>>]
             ELSE [open |-> ElifRefresh(last_if_indent, indent, k), out |-> <<>>]
        ELSE IF IsElseLine(stripped)
        THEN IF indent \notin DOMAIN last_if_indent
             THEN [open |-> last_if_indent,
                   out |-> <<WholeLineDiag(k, line, MSG_ORPHAN_ELSE, <<>>, "Error")>>]
             ELSE [open |-> DictDel(last_if_indent, indent), out |-> <<>>]
        ELSE [open |-> DictDel(last_if_indent, indent), out |-> <<>>]

RECURSIVE CheckOrphanedFrom(_, _, _)
CheckOrphanedFrom(d, k, last_if_indent) ==
    IF k >= Len(d.lines) THEN <<>>
    ELSE LET r == OrphanStep(last_if_indent, d, k)
         IN  r.out \o CheckOrphanedFrom(d, k + 1, r.open)

check_orphaned_elif_else(d) == CheckOrphanedFrom(d, 0, EmptyDict)

\* the number of tokens of a type on a line
RECURSIVE CountType(_, _)
CountType(toks, type) ==
    IF toks = <<>> THEN 0
    ELSE (IF Head(toks).type = type THEN 1 ELSE 0) + CountType(Tail(toks), type)

\* lines 163-173: the depth a line ends with
DepthCarried(d, k, open, close) ==
    CountType(Flatten(SubSeq(d.tokens, 1, k + 1)), open)
    - CountType(Flatten(SubSeq(d.tokens, 1, k + 1)), close)
Depth(d, k, open, close) ==
    CountType(d.tokens[k + 1], open) - CountType(d.tokens[k + 1], close)

\* _check_unmatched_parens: the diagnostics of line k
UnmatchedOfLine(d, k) ==
    (IF Depth(d, k, "PAREN_OPEN", "PAREN_CLOSE") # 0
     THEN <<WholeLineDiag(k, d.lines[k + 1], MSG_PARENS, <<>>, "Error")>> ELSE <<>>)
    \o (IF Depth(d, k, "BRACKET_OPEN", "BRACKET_CLOSE") # 0
        THEN <<WholeLineDiag(k, d.lines[k + 1], MSG_BRACKETS, <<>>, "Error")>> ELSE <<>>)

RECURSIVE CheckUnmatchedFrom(_, _)
CheckUnmatchedFrom(d, k) ==
    IF k >= Len(d.tokens) THEN <<>>
    ELSE UnmatchedOfLine(d, k) \o CheckUnmatchedFrom(d, k + 1)

check_unmatched_parens(d) == CheckUnmatchedFrom(d, 0)

\* _next_significant: the next non-whitespace token after index idx (1-based
\* here), as a one-element sequence, or <<>> for None
next_adjacent(toks, idx) ==
    IF idx + 1 <= Len(toks) THEN <<toks[idx + 1]>> ELSE <<>>
next_significant(toks, idx) ==
    LET later == {m \in (idx + 1)..Len(toks) : toks[m].type # "WHITESPACE"}
    IN  IF later = {} THEN <<>>
        ELSE <<toks[CHOOSE m \in later : \A n \in later : m <= n]>>

\* _check_undefined_references: the diagnostics of the tokens of line k from idx on
RECURSIVE UndefinedFrom(_, _, _)
UndefinedFrom(d, k, idx) ==
    LET toks == d.tokens[k + 1]
    IN  IF idx > Len(toks) THEN <<>>
        ELSE LET t == toks[idx]
                 next_tok == next_significant(toks, idx)
             IN  (IF /\ t.type = "IDENTIFIER"
                     /\ next_tok # <<>>
                     /\ next_tok[1].type = "PAREN_OPEN"
                     /\ FuncIndex(d.functions, t.value) = 0
                     /\ t.value \notin BUILTIN_NAMES
                     /\ t.value \notin KEYWORD_NAMES
                  THEN <<Diag(k, t.col, t.end_col, MSG_UNDEFINED, t.value, "Warning")>>
                  ELSE <<>>)
                 \o UndefinedFrom(d, k, idx + 1)

RECURSIVE CheckUndefinedFrom(_, _)
CheckUndefinedFrom(d, k) ==
    IF k >= Len(d.tokens) THEN <<>>
    ELSE UndefinedFrom(d, k, 1) \o CheckUndefinedFrom(d, k + 1)

check_undefined_references(d) == CheckUndefinedFrom(d, 0)

\* analyze: the five checks, in order
analyze(d) ==
    check_indentation(d)
    \o check_block_structure(d)
    \o check_orphaned_elif_else(d)
    \o check_unmatched_parens(d)
    \o check_undefined_references(d)


-----------------------------------------------------------------------------
(* server.py _reparse: parse_document, then analyze; a later notification *)
(* runs it again on the text it carries                                   *)

\* line 59: diags = analyze(doc); the first build's tables are remembered
Analyze ==
    /\ pc = "parsed"
    /\ diags' = analyze(doc)
    /\ hist' = IF run = 1
               THEN [hist EXCEPT !.text = source, !.functions = doc.functions,
                                 !.variables = doc.variables, !.diags = analyze(doc)]
               ELSE hist
    /\ pc' = "done"
    /\ UNCHANGED <<source, raw_lines, all_tokens, line_indents, functions, variables,
                   current_func, func_indent, lineno, doc, run>>
    /\ UNCHANGED served

-----------------------------------------------------------------------------
(* semantic_tokens.py: the semantic-token encoder *)

\* _TYPE_MAP
TYPE_MAP ==
    [t \in {"KEYWORD", "BUILTIN", "IDENTIFIER", "NUMBER", "STRING", "COMMENT",
            "OPERATOR", "LOGICAL_OP", "CONSTANT"} |->
        CASE t = "KEYWORD" -> 0
          [] t = "BUILTIN" -> 1
          [] t = "IDENTIFIER" -> 2
          [] t = "NUMBER" -> 3
          [] t = "STRING" -> 4
          [] t = "COMMENT" -> 5
          [] t = "OPERATOR" -> 6
          [] t = "LOGICAL_OP" -> 6
          [] t = "CONSTANT" -> 8]

\* _SKIP
SKIP ==
    {"WHITESPACE", "PAREN_OPEN", "PAREN_CLOSE", "BRACKET_OPEN", "BRACKET_CLOSE",
     "COMMA", "COLON", "UNKNOWN"}

\* lines 61-64: the parameter names of every recorded function
param_names(d) ==
    UNION {{d.functions[i].params[m].name : m \in 1..Len(d.functions[i].params)} :
              i \in 1..Len(d.functions)}

\* line 66
func_names(d) == {d.functions[i].name : i \in 1..Len(d.functions)}

\* lines 73-81: the token type emitted for a token
SemanticType(d, tok) ==
    IF tok.type = "IDENTIFIER"
    THEN IF tok.value \in func_names(d) THEN 1
         ELSE IF tok.value \in param_names(d) THEN 7
         ELSE TYPE_MAP[tok.type]
    ELSE TYPE_MAP[tok.type]

\* line 85: the column delta of a token
DeltaColRelative(col, delta_line, prev_col) == col - prev_col
DeltaCol(col, delta_line, prev_col) == IF delta_line > 0 THEN col ELSE col - prev_col

\* lines 68-89: the loop over the tokens, in document order
RECURSIVE EncodeFrom(_, _, _, _)
EncodeFrom(d, toks, prev_line, prev_col) ==
    IF toks = <<>> THEN <<>>
    ELSE LET tok == Head(toks)
         IN  IF tok.type \in SKIP \/ tok.type \notin DOMAIN TYPE_MAP
             THEN EncodeFrom(d, Tail(toks), prev_line, prev_col)
             ELSE LET length == tok.end_col - tok.col
                      delta_line == tok.line - prev_line
                      delta_col == DeltaCol(tok.col, delta_line, prev_col)
                  IN  <<delta_line, delta_col, length, SemanticType(d, tok), 0>>
                      \o EncodeFrom(d, Tail(toks), tok.line, tok.col)

\* an encoder whose previous line starts at 1
provide_semantic_tokens_from_one(d) == EncodeFrom(d, Flatten(d.tokens), 1, 0)
\* lines 57-59, 68-91
provide_semantic_tokens(d) == EncodeFrom(d, Flatten(d.tokens), 0, 0)

\* server.py semantic_tokens_full, on the document just built
SemanticTokensFull ==
    /\ pc = "done"
    /\ ~sem_data.served
    /\ sem_data' = [served |-> TRUE, data |-> provide_semantic_tokens(doc)]
    /\ UNCHANGED <<source, pc, raw_lines, all_tokens, line_indents, functions, variables,
                   current_func, func_indent, lineno, doc, diags, run, hist>>
    /\ UNCHANGED <<doc_cache, published, opened, notified, request, response>>

-----------------------------------------------------------------------------
(* hover.py and definition.py: symbol lookup at a position *)

\* _token_at_position: <<>> for None, else the token in a one-element sequence
token_at_position(d, line, character) ==
    IF line >= Len(d.tokens) THEN <<>>
    ELSE LET toks == d.tokens[line + 1]
             hits == {i \in 1..Len(toks) :
                         /\ toks[i].col <= character
                         /\ character < toks[i].end_col
                         /\ toks[i].type # "WHITESPACE"}
         IN  IF hits = {} THEN <<>>
             ELSE <<toks[CHOOSE i \in hits : \A j \in hits : i <= j]>>

\* definition.py _current_scope, hover.py lines 100-104: the first function of
\* the table whose lines (header excluded) hold the line, else "global"
current_scope(d, line) ==
    LET inside == {i \in 1..Len(d.functions) :
                      d.functions[i].line < line /\ line <= d.functions[i].end_line}
    IN  IF inside = {} THEN GLOBAL
        ELSE d.functions[CHOOSE i \in inside : \A j \in inside : i <= j].name

\* hover.py _find_variable, definition.py lines 45-51: <<>> or <<the VarDef>>
find_variable(d, name, line) ==
    LET scope == current_scope(d, line)
        key == scope \o <<58>> \o name
    IN  IF scope # GLOBAL /\ HasKey(d.variables, key) THEN <<VarAt(d.variables, key)>>
        ELSE IF HasKey(d.variables, name) THEN <<VarAt(d.variables, name)>>
        ELSE <<>>

\* provide_hover: the content is kept as the data it is formatted from
provide_hover(d, line, character) ==
    LET at == token_at_position(d, line, character)
        token == at[1]
        hover(content) == <<[content |-> content, line |-> token.line,
                             col |-> token.col, end_col |-> token.end_col]>>
    IN  IF at = <<>> THEN <<>>
        ELSE IF token.type \in {"KEYWORD", "BUILTIN", "CONSTANT", "LOGICAL_OP",
                                "STRING", "NUMBER"}
        THEN hover([kind |-> token.type, name |-> token.value])
        ELSE IF token.type = "IDENTIFIER"
        THEN IF FuncIndex(d.functions, token.value) # 0
             THEN LET fdef == d.functions[FuncIndex(d.functions, token.value)]
                  IN  hover([kind |-> "function", name |-> fdef.name,
                             params |-> [m \in 1..Len(fdef.params) |-> fdef.params[m].name],
                             line |-> fdef.line + 1])
             ELSE LET vdef == find_variable(d, token.value, line)
                  IN  IF vdef # <<>>
                      THEN hover([kind |-> "variable", name |-> vdef[1].name,
                                  scope |-> vdef[1].scope, line |-> vdef[1].line + 1])
                      ELSE <<>>
        ELSE <<>>

\* provide_definition: the range of the Location
provide_definition(d, line, character) ==
    LET at == token_at_position(d, line, character)
        token == at[1]
    IN  IF at = <<>> THEN <<>>
        ELSE IF token.type \notin {"IDENTIFIER", "BUILTIN"} THEN <<>>
        ELSE IF FuncIndex(d.functions, token.value) # 0
        THEN LET fdef == d.functions[FuncIndex(d.functions, token.value)]
             IN  <<[line |-> fdef.line, col |-> fdef.col,
                    end_col |-> fdef.col + Len(fdef.name)]>>
        ELSE LET vdef == find_variable(d, token.value, line)
             IN  IF vdef # <<>>
                 THEN <<[line |-> vdef[1].line, col |-> vdef[1].col,
                         end_col |-> vdef[1].col + Len(vdef[1].name)]>>
                 ELSE <<>>

-----------------------------------------------------------------------------
(* The input texts *)

MaxLexLen == 3        \* characters of a free-form line
MaxBuildLines == 4    \* lines of a document of the builder family
MaxIndentLines == 3   \* lines of a document of the indentation family
MaxOrphanLines == 4   \* lines of a document of the elif/else family
MaxDelimLen == 3      \* characters of a free-form delimiter line
MaxRebuildLines == 2  \* lines of a rebuilt document
MaxRuns == 3          \* builds in a row
MaxCallLines == 3     \* lines of a document of the call family
MaxHeaderLines == 3   \* lines of a document of the malformed-header family
MaxAssignLines == 3   \* lines of a document of the assignment family
MaxFuncTailLen == 4   \* characters after the name on a function-keyword line
MaxSemKindLen == 4    \* characters of a free text of the token-kind family
MaxSemLen == 5        \* characters of the first line of the token-encoding family
MaxChanges == 2       \* content changes carried by one change notification
MaxHoverLines == 3    \* lines of a document of the lookup family
MaxHoverCol == 8      \* rightmost column of a hover / definition request

\* '\n'.join(lines)
RECURSIVE JoinLines(_)
JoinLines(ls) ==
    IF ls = <<>> THEN <<>>
    ELSE IF Len(ls) = 1 THEN ls[1]
    ELSE ls[1] \o <<10>> \o JoinLines(Tail(ls))

\* the texts whose lines come from a set of lines
Texts(lineSet, maxLines) == {JoinLines(ls) : ls \in AllStrings(lineSet, maxLines)}

Indent4 == <<32, 32, 32, 32>>
L_HEADER_F_AB == KW_FUNCTION \o <<32, 102, 40, 97, 44, 32, 98, 41, 58>>  \* F f(a, b):
L_HEADER_F_B == KW_FUNCTION \o <<32, 102, 40, 98, 41, 58>>               \* F f(b):
L_HEADER_G_A == KW_FUNCTION \o <<32, 103, 40, 97, 41, 58>>               \* F g(a):
L_ASSIGN_X == <<120, 32, 61, 32, 49>>                                    \* x = 1
L_ASSIGN_B == <<98, 32, 61, 32, 50>>                                     \* b = 2
L_COMMENT == <<35, 32, 99>>                                              \* # c
L_BLANK == <<>>
L_IF == KW_IF \o <<32, 120, 58>>                                         \* if x:
L_IF_NO_COLON == KW_IF \o <<32, 120>>                                    \* if x
L_ELIF == KW_ELIF \o <<32, 120, 58>>                                     \* elif x:
L_ELSE == KW_ELSE \o <<58>>                                              \* else:
L_ELSE_NO_COLON == KW_ELSE                                               \* else
L_WHILE == KW_WHILE \o <<32, 120, 58>>                                   \* while x:
L_CALL_OPEN == <<120, 32, 61, 32, 102, 40, 49, 44, 32, 50>>              \* x = f(1, 2

\* free-form lines: one character of every class the lexer tells apart
\*   # space tab " 1 (Devanagari 1) a (Devanagari ca) = ! ( ] , : ?
LexAlphabet == {35, 32, 9, 34, 49, 2407, 97, 2330, 61, 33, 40, 93, 44, 58, 63}
LexInputs ==
    AllStrings(LexAlphabet, MaxLexLen)
    \cup {L_HEADER_F_AB, L_IF, BI_PRINT \o <<40, 41, 91>>, <<62, 61, 41>>}

BuildLines ==
    {L_HEADER_F_AB, L_HEADER_F_B, L_ASSIGN_X, L_BLANK, L_COMMENT,
     Indent4 \o L_HEADER_G_A, Indent4 \o L_ASSIGN_X, Indent4 \o L_ASSIGN_B}
BuildInputs == Texts(BuildLines, MaxBuildLines)

IndentLines ==
    {L_IF, L_ELIF, L_ELSE, L_WHILE, L_HEADER_G_A, L_IF_NO_COLON, L_ASSIGN_X, L_BLANK,
     L_COMMENT, Indent4 \o L_IF, Indent4 \o L_ASSIGN_X,
     Indent4 \o Indent4 \o L_ASSIGN_X}
IndentInputs == Texts(IndentLines, MaxIndentLines)

OrphanLines ==
    {L_IF, L_ELIF, L_ELSE, L_ELSE_NO_COLON, L_ASSIGN_X, L_BLANK, L_COMMENT,
     Indent4 \o L_IF, Indent4 \o L_ELSE, Indent4 \o L_ASSIGN_X}
OrphanInputs == Texts(OrphanLines, MaxOrphanLines)

\*   ( ) [ ] " #
DelimAlphabet == {40, 41, 91, 93, 34, 35}
DelimInputs ==
    {JoinLines(ls) : ls \in
        {<<l>> : l \in AllStrings(DelimAlphabet, MaxDelimLen) \cup {L_CALL_OPEN}}
        \cup {<<h, l>> : h \in {<<40>>, <<93>>, L_CALL_OPEN},
                         l \in AllStrings(DelimAlphabet, MaxDelimLen)}}

RebuildLines ==
    {L_HEADER_F_AB, L_HEADER_F_B, L_ASSIGN_X, L_IF, L_ELSE, L_CALL_OPEN,
     Indent4 \o L_ASSIGN_X, Indent4 \o L_ASSIGN_B}
RebuildInputs == Texts(RebuildLines, MaxRebuildLines)
\* the texts of other documents built in between
OtherTexts == {JoinLines(<<L_HEADER_F_B, Indent4 \o L_ASSIGN_X, L_ELSE>>)}

L_CALL_G == <<103, 40, 49, 41>>                                          \* g(1)
L_CALL_H == <<104, 40, 49, 41>>                                          \* h(1)
L_CALL_H_SPACED == <<104, 32, 40, 103, 40, 49, 41, 41>>                  \* h (g(1))
L_PRINT_H == BI_PRINT \o <<40, 104, 41>>                                 \* print(h)
L_HEADER_BAD == KW_FUNCTION \o <<32, 104, 40>>                           \* F h(
L_IF_PAREN == KW_IF \o <<40, 120, 41, 58>>                               \* if(x):

CallLines ==
    {L_HEADER_G_A, L_CALL_G, L_CALL_H, L_CALL_H_SPACED, L_PRINT_H, L_HEADER_BAD,
     L_IF_PAREN, L_COMMENT}
CallInputs == Texts(CallLines, MaxCallLines)

\*   x space (
SemAlphabet == {120, 32, 40}
\* a free-form first line, then nothing, or one of three second lines
SemInputs ==
    {JoinLines(ls) : ls \in
        {<<l>> : l \in AllStrings(SemAlphabet, MaxSemLen)}
        \cup {<<l, m>> : l \in AllStrings(SemAlphabet, MaxSemLen),
                         m \in {<<32, 32, 121>>, <<121, 32, 121>>, L_HEADER_G_A}}}

\* the texts the client sends: empty, one without and two with diagnostics
NotifiedTexts == {<<>>, L_ASSIGN_X, L_ELSE, JoinLines(<<L_IF, L_CALL_H>>)}

L_HEADER_GLOBAL == KW_FUNCTION \o <<32>> \o GLOBAL \o <<40, 97, 41, 58>>  \* F global(a):
L_ASSIGN_A_X == <<97, 32, 61, 32, 120>>                                  \* a = x

HoverLines ==
    {L_HEADER_F_AB, L_HEADER_GLOBAL, L_ASSIGN_X, L_ASSIGN_A_X, Indent4 \o L_ASSIGN_X,
     Indent4 \o L_ASSIGN_A_X}
HoverInputs == Texts(HoverLines, MaxHoverLines)

\* headers that are not of the form 'F name(params):', inside and outside a
\* function body, with assignments at three depths
Indent8 == Indent4 \o Indent4
L_HEADER_H_A_OPEN == KW_FUNCTION \o <<32, 104, 40, 97>>                     \* F h(a
L_HEADER_NONAME == KW_FUNCTION \o <<32, 40, 97, 41, 58>>                    \* F (a):
L_HEADER_NOPAREN == KW_FUNCTION \o <<32, 104, 32, 97, 32, 98>>              \* F h a b
L_HEADER_LATE_PAREN == KW_FUNCTION \o <<32, 104, 32, 97, 40>>               \* F h a(
HeaderLines ==
    {L_HEADER_F_AB, L_HEADER_BAD, L_HEADER_H_A_OPEN, L_ASSIGN_X,
     Indent4 \o L_HEADER_BAD, Indent4 \o L_HEADER_NONAME, Indent4 \o L_HEADER_NOPAREN,
     Indent4 \o L_HEADER_LATE_PAREN, Indent4 \o L_ASSIGN_X, Indent8 \o L_ASSIGN_X}
HeaderInputs == Texts(HeaderLines, MaxHeaderLines)

\* lines with and without the assignment shape, inside and outside a function
L_ASSIGN_BARE == <<120, 32, 61>>                                         \* x =
L_COMPARE == <<120, 32, 61, 61, 32, 49>>                                 \* x == 1
L_ASSIGN_NUMBER == <<49, 32, 61, 32, 120>>                               \* 1 = x
AssignLines ==
    {L_HEADER_F_AB, L_ASSIGN_X, L_ASSIGN_BARE, L_COMPARE, L_ASSIGN_NUMBER,
     Indent4 \o L_ASSIGN_X, Indent4 \o L_ASSIGN_BARE, Indent4 \o L_ASSIGN_A_X,
     Indent4 \o L_COMPARE}
AssignInputs == Texts(AssignLines, MaxAssignLines)

\* function-keyword lines: 'F f' followed by every short tail over ( ) : a space
FuncTailAlphabet == {40, 41, 58, 97, 32}
FuncLineInputs ==
    {KW_FUNCTION \o <<32, 102>> \o t : t \in AllStrings(FuncTailAlphabet, MaxFuncTailLen)}

\* texts of every token kind the encoder knows: every short text over
\*   x 1 space = # ( newline
\* and four fixed ones with a string, a keyword, a builtin and a parameter
SemKindAlphabet == {120, 49, 32, 61, 35, 40, 10}
SemKindInputs ==
    AllStrings(SemKindAlphabet, MaxSemKindLen)
    \cup {<<34, 120, 34, 32, 49>>,
          JoinLines(<<L_HEADER_G_A, Indent4 \o L_PRINT_H>>),
          JoinLines(<<L_ASSIGN_X, L_BLANK, Indent4 \o L_ASSIGN_A_X>>),
          JoinLines(<<L_HEADER_G_A, Indent4 \o L_ASSIGN_A_X, L_CALL_G>>)}

-----------------------------------------------------------------------------
(* server.py: the document cache and the notifications *)

\* the documents of the workspace
URIS == {"file:///a.sans", "file:///b.sans"}

\* no notification received yet for a URI
NoNotification == [kind |-> "none", text |-> <<>>]

\* _reparse(ls, uri, text): the cache and the published diagnostics after it
ReparseCache(uri, text) == [doc_cache EXCEPT ![uri] = <<parse_document(text)>>]
ReparsePublished(uri, text) ==
    [published EXCEPT ![uri] = <<analyze(parse_document(text))>>]

\* did_open
DidOpen ==
    \E uri \in URIS, text \in NotifiedTexts :
        /\ doc_cache' = ReparseCache(uri, text)
        /\ published' = ReparsePublished(uri, text)
        /\ opened' = opened \cup {uri}
        /\ notified' = [notified EXCEPT ![uri] = [kind |-> "open", text |-> text]]
        /\ UNCHANGED <<build, sem_data, request, response>>

\* line 80: params.content_changes[-1].text
ChangeTextFirst(content_changes) == content_changes[1]
ChangeText(content_changes) == content_changes[Len(content_changes)]

\* did_change: a notification without content changes does nothing
DidChange ==
    \E uri \in URIS, content_changes \in AllStrings(NotifiedTexts, MaxChanges) :
        /\ IF content_changes # <<>>
           THEN /\ doc_cache' = ReparseCache(uri, ChangeText(content_changes))
                /\ published' = ReparsePublished(uri, ChangeText(content_changes))
                /\ notified' = [notified EXCEPT ![uri] =
                                   [kind |-> "change",
                                    text |-> content_changes[Len(content_changes)]]]
           ELSE UNCHANGED <<doc_cache, published, notified>>
        /\ UNCHANGED <<build, sem_data, opened, request, response>>

\* did_close
DidClose ==
    \E uri \in URIS :
        /\ doc_cache' = [doc_cache EXCEPT ![uri] = <<>>]
        /\ published' = [published EXCEPT ![uri] = << <<>> >>]
        /\ opened' = opened \ {uri}
        /\ notified' = [notified EXCEPT ![uri] = [kind |-> "close", text |-> <<>>]]
        /\ UNCHANGED <<build, sem_data, request, response>>

\* no hover / definition request received yet
NoRequest == [kind |-> "none", line |-> 0, character |-> 0]

\* server.py hover, on the document just built; one request per build is
\* followed, since a request changes nothing that a later one reads
HoverRequest ==
    /\ pc = "done"
    /\ request = NoRequest
    /\ \E line \in 0..MaxHoverLines, character \in 0..MaxHoverCol :
          /\ request' = [kind |-> "hover", line |-> line, character |-> character]
          /\ response' = provide_hover(doc, line, character)
    /\ UNCHANGED <<build, sem_data, doc_cache, published, opened, notified>>

\* server.py definition, on the document just built
DefinitionRequest ==
    /\ pc = "done"
    /\ request = NoRequest
    /\ \E line \in 0..MaxHoverLines, character \in 0..MaxHoverCol :
          /\ request' = [kind |-> "definition", line |-> line, character |-> character]
          /\ response' = provide_definition(doc, line, character)
    /\ UNCHANGED <<build, sem_data, doc_cache, published, opened, notified>>

-----------------------------------------------------------------------------
(* The specifications *)

NoDoc == [tokens |-> <<>>, functions |-> <<>>, variables |-> <<>>,
          line_indents |-> <<>>, lines |-> <<>>]
NoHist == [text |-> <<>>, functions |-> <<>>, variables |-> <<>>, diags |-> <<>>,
           prev |-> <<>>]

\* no semantic-tokens request served yet
NoData == [served |-> FALSE, data |-> <<>>]

InitWith(inputs) ==
    /\ source \in inputs
    /\ pc = "start"
    /\ raw_lines = <<>>
    /\ all_tokens = <<>>
    /\ line_indents = <<>>
    /\ functions = <<>>
    /\ variables = <<>>
    /\ current_func = NoFunc
    /\ func_indent = -1
    /\ lineno = 0
    /\ doc = NoDoc
    /\ diags = <<>>
    /\ run = 1
    /\ hist = NoHist
    /\ sem_data = NoData
    /\ doc_cache = [u \in URIS |-> <<>>]
    /\ published = [u \in URIS |-> <<>>]
    /\ opened = {}
    /\ notified = [u \in URIS |-> NoNotification]
    /\ request = NoRequest
    /\ response = <<>>

\* a later notification: _reparse runs again, on the same text or another one
Rebuild ==
    /\ pc = "done"
    /\ run < MaxRuns
    /\ source' \in {hist.text} \cup OtherTexts
    /\ hist' = [hist EXCEPT !.prev = source]
    /\ run' = run + 1
    /\ pc' = "start"
    /\ UNCHANGED <<raw_lines, all_tokens, line_indents, functions, variables,
                   current_func, func_indent, lineno, doc, diags>>
    /\ UNCHANGED served

Next == ParseBegin \/ LexLine \/ ScanLine \/ ParseEnd \/ Analyze

NextRebuild == Next \/ Rebuild

Init == InitWith(BuildInputs)
Spec == Init /\ [][Next]_vars

InitLex == InitWith(LexInputs)
SpecLex == InitLex /\ [][Next]_vars

InitIndent == InitWith(IndentInputs)
SpecIndent == InitIndent /\ [][Next]_vars

InitOrphan == InitWith(OrphanInputs)
SpecOrphan == InitOrphan /\ [][Next]_vars

InitDelim == InitWith(DelimInputs)
SpecDelim == InitDelim /\ [][Next]_vars

InitRebuild == InitWith(RebuildInputs)
SpecRebuild == InitRebuild /\ [][NextRebuild]_vars

InitHeader == InitWith(HeaderInputs)
SpecHeader == InitHeader /\ [][Next]_vars

InitAssign == InitWith(AssignInputs)
SpecAssign == InitAssign /\ [][Next]_vars

InitFuncLine == InitWith(FuncLineInputs)
SpecFuncLine == InitFuncLine /\ [][Next]_vars

InitCall == InitWith(CallInputs)
SpecCall == InitCall /\ [][Next]_vars

NextServer == DidOpen \/ DidChange \/ DidClose
InitServer == InitWith({<<>>})
SpecServer == InitServer /\ [][NextServer]_vars

NextHover == Next \/ HoverRequest \/ DefinitionRequest
InitHover == InitWith(HoverInputs)
SpecHover == InitHover /\ [][NextHover]_vars

NextSem == Next \/ SemanticTokensFull
InitSem == InitWith(SemInputs)
SpecSem == InitSem /\ [][NextSem]_vars

InitSemKind == InitWith(SemKindInputs)
SpecSemKind == InitSemKind /\ [][NextSem]_vars



-----------------------------------------------------------------------------
(* The lexer tiles the line *)

C1_Tiles(line, toks) ==
    /\ (toks = <<>> <=> line = <<>>)
    /\ toks # <<>> => toks[1].col = 0 /\ toks[Len(toks)].end_col = Len(line)
    /\ \A k \in 1..Len(toks) :
          /\ toks[k].col < toks[k].end_col
          /\ toks[k].end_col <= Len(line)
          /\ toks[k].value = Slice(line, toks[k].col, toks[k].end_col)
    /\ \A k \in 1..(Len(toks) - 1) : toks[k + 1].col = toks[k].end_col
    /\ Flatten([k \in 1..Len(toks) |-> toks[k].value]) = line

\* C1: the tokens of every lexed line tile it: the first starts at column 0,
\* each starts where the previous one ends, the last ends at len(line), none is
\* empty, each one's text is line[col:end_col], and the texts concatenated in
\* order are the line.
C1_TokensTileLine ==
    \A k \in 1..Len(all_tokens) : C1_Tiles(raw_lines[k], all_tokens[k])

\* a lexed line made of whitespace, an unknown character and an unterminated string
C1_Witness ==
    /\ pc = "done"
    /\ Len(all_tokens) = 1
    /\ Len(all_tokens[1]) = 3
    /\ all_tokens[1][1].type = "WHITESPACE"
    /\ all_tokens[1][2].type = "UNKNOWN"
    /\ all_tokens[1][3].type = "STRING"
    /\ all_tokens[1][3].value = <<34>>

-----------------------------------------------------------------------------
(* The builder is total and keeps one entry per line *)

\* the number of lines of a text, counted on its newline characters: one more
\* than the newlines, less the empty line after a final newline, at least 1
C2_LineCount(text) ==
    LET newlines == Cardinality({k \in 1..Len(text) : text[k] = 10})
    IN  IF text = <<>> \/ text[Len(text)] = 10 THEN Max(newlines, 1) ELSE newlines + 1

C2_SameLength ==
    /\ Len(doc.tokens) = C2_LineCount(source)
    /\ Len(doc.line_indents) = C2_LineCount(source)
    /\ Len(doc.lines) = C2_LineCount(source)
    /\ C2_LineCount(source) >= 1

\* C2: a build never stops before its end (in each loop the index is below the
\* number of lines, so the loop's step is enabled and the lines left to process
\* decrease), and the ParsedDocument it returns has tokens, line_indents and
\* lines of one length: the number of newline-separated lines of the text
\* without a single trailing empty line, and at least 1.
C2_BuildTerminatesOneEntryPerLine ==
    /\ pc \in {"start", "lex", "scan", "end", "parsed", "done"}
    /\ pc = "lex" => lineno < Len(raw_lines) /\ Len(all_tokens) = lineno
    /\ pc = "scan" => lineno < Len(all_tokens) /\ Len(all_tokens) = Len(raw_lines)
    /\ pc \in {"parsed", "done"} => C2_SameLength

\* a text that ends in a newline, built into a document of several lines
C2_Witness ==
    /\ pc = "done"
    /\ source # <<>>
    /\ source[Len(source)] = 10
    /\ Len(doc.lines) >= 2
    /\ \E k \in 1..Len(doc.lines) : doc.lines[k] = <<>>

-----------------------------------------------------------------------------
(* Rebuilding a text gives the same tables and diagnostics *)

\* C3: whenever the text of the first build has been built again, after any
\* builds of that text or of another document in between, the function table,
\* the variable table and the diagnostics list equal those of the first build.
C3_RebuildIsIdentical ==
    (pc = "done" /\ source = hist.text) =>
        /\ doc.functions = hist.functions
        /\ doc.variables = hist.variables
        /\ diags = hist.diags

\* the third build: the first text again, right after another document, with
\* functions, variables and diagnostics to compare
C3_Witness ==
    /\ pc = "done"
    /\ run = 3
    /\ source = hist.text
    /\ hist.prev \in OtherTexts
    /\ hist.prev # hist.text
    /\ hist.functions # <<>>
    /\ hist.variables # <<>>
    /\ hist.diags # <<>>

-----------------------------------------------------------------------------
(* Function extents, scopes and redefinitions *)

\* the header lines of the builder family, with the name and the parameter
\* names each one declares
C4_IsHeader(line) == line \in {L_HEADER_F_AB, L_HEADER_F_B, Indent4 \o L_HEADER_G_A}
C4_NameOf(line) == IF line = Indent4 \o L_HEADER_G_A THEN <<103>> ELSE <<102>>
C4_ParamsOf(line) ==
    IF line = L_HEADER_F_AB THEN << <<97>>, <<98>> >>
    ELSE IF line = L_HEADER_F_B THEN << <<98>> >>
    ELSE << <<97>> >>

\* a line with something on it besides blanks and a comment
C4_HasCode(line) ==
    \E i \in 1..Len(line) :
        /\ line[i] \notin BLANKS \cup {35}
        /\ \A j \in 1..(i - 1) : line[j] \in BLANKS

\* the lines after header h that have code at or below the header's indentation
C4_Closers(h) ==
    {c \in (h + 1)..(Len(doc.lines) - 1) :
        /\ C4_HasCode(doc.lines[c + 1])
        /\ doc.line_indents[c + 1] <= doc.line_indents[h + 1]}

\* the lines between header h and line c indented deeper than the header
C4_Body(h, c) ==
    {j \in (h + 1)..(c - 1) : doc.line_indents[j + 1] > doc.line_indents[h + 1]}

C4_Least(S) == CHOOSE x \in S : \A y \in S : x <= y
C4_Greatest(S) == CHOOSE x \in S : \A y \in S : x >= y

\* header h is the only header of its name in the document
C4_DefinedOnce(h) ==
    \A j \in 0..(Len(doc.lines) - 1) :
        (j # h /\ C4_IsHeader(doc.lines[j + 1]))
            => C4_NameOf(doc.lines[j + 1]) # C4_NameOf(doc.lines[h + 1])

C4_ParamNames(fd) == [p \in 1..Len(fd.params) |-> fd.params[p].name]

\* C4: a header (of a name defined once) followed by body lines and then by a
\* line with code at or below the header's indentation yields a function of
\* the header's name and parameters whose end_line is the last line between the
\* header and that closing line indented deeper than the header, whatever
\* blank lines, comment lines or nested header lie in between.
C4_BodyEndIsLastIndentedLine ==
    pc = "done" =>
        \A h \in 0..(Len(doc.lines) - 1) :
            (/\ C4_IsHeader(doc.lines[h + 1])
             /\ C4_DefinedOnce(h)
             /\ C4_Closers(h) # {}
             /\ C4_Body(h, C4_Least(C4_Closers(h))) # {})
            => \E i \in 1..Len(doc.functions) :
                  /\ doc.functions[i].name = C4_NameOf(doc.lines[h + 1])
                  /\ doc.functions[i].line = h
                  /\ C4_ParamNames(doc.functions[i]) = C4_ParamsOf(doc.lines[h + 1])
                  /\ doc.functions[i].end_line =
                         C4_Greatest(C4_Body(h, C4_Least(C4_Closers(h))))

\* the name a line assigns to, <<>> when the line is no assignment
C5_AssignedName(line) ==
    IF Strip(line) = L_ASSIGN_X THEN <<120>>
    ELSE IF Strip(line) = L_ASSIGN_B THEN <<98>>
    ELSE <<>>

\* the scope of line k: the function of the last header above it while every
\* line with code since that header is indented deeper than it, else global
C5_ScopeAt(k) ==
    LET hs == {h \in 0..(k - 1) : C4_IsHeader(doc.lines[h + 1])}
    IN  IF hs = {} THEN GLOBAL
        ELSE LET h == C4_Greatest(hs)
             IN  IF \A j \in (h + 1)..k :
                        C4_HasCode(doc.lines[j + 1])
                            => doc.line_indents[j + 1] > doc.line_indents[h + 1]
                 THEN C4_NameOf(doc.lines[h + 1])
                 ELSE GLOBAL

\* the lines that assign to a name in a scope
C5_Sites(scope, name) ==
    {k \in 0..(Len(doc.lines) - 1) :
        /\ ~C4_IsHeader(doc.lines[k + 1])
        /\ C5_AssignedName(doc.lines[k + 1]) = name
        /\ C5_ScopeAt(k) = scope}

\* the parameters called name of the function the table records for a scope
C5_ParamsCalled(scope, name) ==
    {p \in UNION {{doc.functions[i].params[m] : m \in 1..Len(doc.functions[i].params)} :
                     i \in {n \in 1..Len(doc.functions) : doc.functions[n].name = scope}} :
        p.name = name}

C5_SiteIsFirst(v) ==
    IF C5_ParamsCalled(v.scope, v.name) # {}
    THEN \E p \in C5_ParamsCalled(v.scope, v.name) : v.line = p.line /\ v.col = p.col
    ELSE /\ C5_Sites(v.scope, v.name) # {}
         /\ v.line = C4_Least(C5_Sites(v.scope, v.name))
         /\ v.col = doc.line_indents[v.line + 1]

\* C5: the variable table holds at most one entry per scope and name, and the
\* entry's line and column are those of the parameter in the header of the
\* scope's function when the name is one of its parameters, else those of the
\* first assignment to the name in the scope.
C5_FirstSiteRecorded ==
    pc = "done" =>
        /\ \A i, j \in 1..Len(doc.variables) :
              (doc.variables[i].scope = doc.variables[j].scope
               /\ doc.variables[i].name = doc.variables[j].name) => i = j
        /\ \A i \in 1..Len(doc.variables) : C5_SiteIsFirst(doc.variables[i])

\* header h is the last of several headers of its name
C6_LastOfSeveral(h) ==
    /\ C4_IsHeader(doc.lines[h + 1])
    /\ \E j \in 0..(h - 1) :
          /\ C4_IsHeader(doc.lines[j + 1])
          /\ C4_NameOf(doc.lines[j + 1]) = C4_NameOf(doc.lines[h + 1])
    /\ \A j \in (h + 1)..(Len(doc.lines) - 1) :
          C4_IsHeader(doc.lines[j + 1])
              => C4_NameOf(doc.lines[j + 1]) # C4_NameOf(doc.lines[h + 1])

\* C6: when several headers declare one name, the function table's entry for
\* the name is the last header's (line, parameters, an extent that starts
\* there), every parameter variable of the name's scope sits in the last
\* header, and no variable of that scope sits in an earlier header.
C6_LastDefinitionWins ==
    pc = "done" =>
        \A h \in 0..(Len(doc.lines) - 1) :
            C6_LastOfSeveral(h) =>
                LET name == C4_NameOf(doc.lines[h + 1])
                IN  /\ \E i \in 1..Len(doc.functions) :
                          /\ doc.functions[i].name = name
                          /\ doc.functions[i].line = h
                          /\ doc.functions[i].end_line >= h
                          /\ C4_ParamNames(doc.functions[i]) = C4_ParamsOf(doc.lines[h + 1])
                          /\ \A m \in 1..Len(doc.functions[i].params) :
                                \E n \in 1..Len(doc.variables) :
                                    /\ doc.variables[n].scope = name
                                    /\ doc.variables[n].name = doc.functions[i].params[m].name
                                    /\ doc.variables[n].line = h
                                    /\ doc.variables[n].col = doc.functions[i].params[m].col
                    /\ \A n \in 1..Len(doc.variables) :
                          (doc.variables[n].scope = name
                           /\ C4_IsHeader(doc.lines[doc.variables[n].line + 1]))
                              => doc.variables[n].line = h

-----------------------------------------------------------------------------
(* The indentation check *)

\* the nearest line above k that is neither blank nor a comment, -1 if none
C7_Prev(k) ==
    LET above == {j \in 0..(k - 1) : ~IsSkipped(Strip(doc.lines[j + 1]))}
    IN  IF above = {} THEN -1 ELSE C4_Greatest(above)

\* line k should carry the warning
C7_Expected(k) ==
    /\ ~IsSkipped(Strip(doc.lines[k + 1]))
    /\ C7_Prev(k) >= 0
    /\ LET header == Strip(doc.lines[C7_Prev(k) + 1])
       IN  /\ \E kw \in {KW_IF, KW_ELIF, KW_ELSE, KW_WHILE, KW_FUNCTION} :
                 StartsWith(header, kw)
           /\ header[Len(header)] = 58
    /\ doc.line_indents[k + 1] <= doc.line_indents[C7_Prev(k) + 1]

\* the diagnostics with a message on a line
C7_On(text, k) ==
    {i \in 1..Len(diags) : diags[i].message.text = text /\ diags[i].line = k}

C7_All(text) == {i \in 1..Len(diags) : diags[i].message.text = text}

\* C7: analyze emits exactly one 'Expected indented block' warning, over the
\* whole line, on every non-blank, non-comment line whose nearest non-blank,
\* non-comment line above starts with a block keyword, ends with ':' and is
\* indented at least as much, and none on any other line; a block opener
\* directly followed by a line that is not indented gives exactly one, on the
\* second line.
C7_OneWarningPerUnindentedBlock ==
    pc = "done" =>
        /\ \A k \in 0..(Len(doc.lines) - 1) :
              Cardinality(C7_On(MSG_INDENT, k)) = IF C7_Expected(k) THEN 1 ELSE 0
        /\ \A i \in C7_All(MSG_INDENT) :
              /\ diags[i].line \in 0..(Len(doc.lines) - 1)
              /\ diags[i].severity = "Warning"
              /\ diags[i].col = 0
              /\ diags[i].end_col = Len(doc.lines[diags[i].line + 1])
        /\ (Len(doc.lines) = 2 /\ doc.lines[1] \in {L_IF, L_ELIF, L_ELSE, L_WHILE, L_HEADER_G_A}
            /\ doc.lines[2] = L_ASSIGN_X)
              => (Cardinality(C7_All(MSG_INDENT)) = 1
                  /\ Cardinality(C7_On(MSG_INDENT, 1)) = 1)

\* an opener, a comment line, then a line at the opener's indentation: the
\* warning is on the third line
C7_Witness ==
    /\ pc = "done"
    /\ doc.lines = <<L_IF, L_COMMENT, L_ASSIGN_X>>
    /\ Cardinality(C7_On(MSG_INDENT, 2)) = 1
    /\ Cardinality(C7_All(MSG_INDENT)) = 1

-----------------------------------------------------------------------------
(* The dangling elif / else check *)

\* an if is open at the indentation of line k: an if header above k at that
\* indentation with only elif lines at that indentation since
C8_OpenIfAt(k) ==
    \E h \in 0..(k - 1) :
        /\ doc.line_indents[h + 1] = doc.line_indents[k + 1]
        /\ StartsWith(Strip(doc.lines[h + 1]), KW_IF)
        /\ EndsWithChar(Strip(doc.lines[h + 1]), 58)
        /\ \A j \in (h + 1)..(k - 1) :
              (~IsSkipped(Strip(doc.lines[j + 1]))
               /\ doc.line_indents[j + 1] = doc.line_indents[k + 1])
                  => StartsWith(Strip(doc.lines[j + 1]), KW_ELIF)

C8_IsElif(k) == StartsWith(Strip(doc.lines[k + 1]), KW_ELIF)

C8_WholeLineError(i) ==
    /\ diags[i].severity = "Error"
    /\ diags[i].col = 0
    /\ diags[i].end_col = Len(doc.lines[diags[i].line + 1])

C9_IsElse(k) == StartsWith(Strip(doc.lines[k + 1]), KW_ELSE)

\* C9: every else line carries an orphaned-else error when no if is open at
\* its indentation and none when one is open; an else closes the if it
\* answers, so an else directly after it at the same indentation is an orphan.
C9_OrphanedElseReported ==
    pc = "done" =>
        \A k \in 0..(Len(doc.lines) - 1) :
            C9_IsElse(k) =>
                Cardinality(C7_On(MSG_ORPHAN_ELSE, k)) = IF C8_OpenIfAt(k) THEN 0 ELSE 1

-----------------------------------------------------------------------------
(* The delimiter check *)

\* the characters of a line outside strings and comments, read off the text:
\* '"' opens and closes a string, '#' outside a string starts a comment
RECURSIVE C10_Code(_, _)
C10_Code(line, in_string) ==
    IF line = <<>> THEN <<>>
    ELSE IF in_string
    THEN C10_Code(Tail(line), Head(line) # 34)
    ELSE IF Head(line) = 35 THEN <<>>
    ELSE IF Head(line) = 34 THEN C10_Code(Tail(line), TRUE)
    ELSE <<Head(line)>> \o C10_Code(Tail(line), FALSE)

C10_Chars(k, ch) ==
    LET code == C10_Code(doc.lines[k + 1], FALSE)
    IN  Cardinality({i \in 1..Len(code) : code[i] = ch})

C10_Tokens(k, type) ==
    Cardinality({i \in 1..Len(doc.tokens[k + 1]) : doc.tokens[k + 1][i].type = type})

\* C10: a line carries one 'Unmatched parentheses' error iff its paren-open
\* and paren-close tokens differ in number, and one 'Unmatched brackets' error
\* iff its bracket tokens do, each decided on the line alone; the tokens
\* counted are the delimiters outside strings and comments; 'x = f(1, 2' gets
\* one parentheses error and no bracket error.
C10_UnmatchedPerLine ==
    pc = "done" =>
        /\ \A k \in 0..(Len(doc.lines) - 1) :
              /\ Cardinality(C7_On(MSG_PARENS, k)) =
                     IF C10_Tokens(k, "PAREN_OPEN") # C10_Tokens(k, "PAREN_CLOSE")
                     THEN 1 ELSE 0
              /\ Cardinality(C7_On(MSG_BRACKETS, k)) =
                     IF C10_Tokens(k, "BRACKET_OPEN") # C10_Tokens(k, "BRACKET_CLOSE")
                     THEN 1 ELSE 0
              /\ C10_Tokens(k, "PAREN_OPEN") = C10_Chars(k, 40)
              /\ C10_Tokens(k, "PAREN_CLOSE") = C10_Chars(k, 41)
              /\ C10_Tokens(k, "BRACKET_OPEN") = C10_Chars(k, 91)
              /\ C10_Tokens(k, "BRACKET_CLOSE") = C10_Chars(k, 93)
        /\ \A i \in C7_All(MSG_PARENS) \cup C7_All(MSG_BRACKETS) :
              diags[i].line \in 0..(Len(doc.lines) - 1) /\ C8_WholeLineError(i)
        /\ doc.lines = <<L_CALL_OPEN>>
              => Cardinality(C7_All(MSG_PARENS)) = 1 /\ C7_All(MSG_BRACKETS) = {}

\* '(' on one line and ')' on the next: each line is unbalanced on its own,
\* though the two balance each other
C10_Witness ==
    /\ pc = "done"
    /\ doc.lines = << <<40>>, <<41>> >>
    /\ Cardinality(C7_On(MSG_PARENS, 0)) = 1
    /\ Cardinality(C7_On(MSG_PARENS, 1)) = 1
    /\ C7_All(MSG_BRACKETS) = {}

-----------------------------------------------------------------------------
(* The undefined-call check *)

\* token idx of line k is followed, whitespace aside, by an open parenthesis
C11_Called(k, idx) ==
    LET toks == doc.tokens[k + 1]
    IN  \E j \in (idx + 1)..Len(toks) :
            /\ toks[j].type = "PAREN_OPEN"
            /\ \A m \in (idx + 1)..(j - 1) : toks[m].type = "WHITESPACE"

C11_Recorded(name) == \E i \in 1..Len(doc.functions) : doc.functions[i].name = name

\* the 'Undefined function' diagnostics over columns [col, end_col) of line k
C11_At(k, col, end_col) ==
    {i \in C7_On(MSG_UNDEFINED, k) : diags[i].col = col /\ diags[i].end_col = end_col}

C11_Undefined(k, idx) ==
    LET t == doc.tokens[k + 1][idx]
    IN  /\ t.type = "IDENTIFIER"
        /\ C11_Called(k, idx)
        /\ ~C11_Recorded(t.value)
        /\ t.value \notin BUILTIN_NAMES \cup KEYWORD_NAMES

\* C11: analyze emits exactly one 'Undefined function' warning over exactly
\* the columns of an identifier token iff the token's next non-whitespace token
\* is '(' and its name is neither in the function table (whether the function
\* is defined above or below the call), nor a builtin, nor a keyword; there is
\* no such warning anywhere else.
C11_UndefinedCallReported ==
    pc = "done" =>
        /\ \A k \in 0..(Len(doc.tokens) - 1) :
              \A idx \in 1..Len(doc.tokens[k + 1]) :
                  Cardinality(C11_At(k, doc.tokens[k + 1][idx].col,
                                     doc.tokens[k + 1][idx].end_col)) =
                      IF C11_Undefined(k, idx) THEN 1 ELSE 0
        /\ \A i \in C7_All(MSG_UNDEFINED) :
              /\ diags[i].severity = "Warning"
              /\ diags[i].line \in 0..(Len(doc.tokens) - 1)
              /\ \E idx \in 1..Len(doc.tokens[diags[i].line + 1]) :
                    LET t == doc.tokens[diags[i].line + 1][idx]
                    IN  /\ C11_Undefined(diags[i].line, idx)
                        /\ diags[i].col = t.col
                        /\ diags[i].end_col = t.end_col
                        /\ diags[i].message.arg = t.value
                        /\ t.value = Slice(doc.lines[diags[i].line + 1], t.col, t.end_col)

\* a call of g above g's header, then 'h (g(1))': h, a space before its
\* parenthesis, is the one undefined call
C11_Witness ==
    /\ pc = "done"
    /\ doc.lines = <<L_CALL_G, L_HEADER_G_A, L_CALL_H_SPACED>>
    /\ Cardinality(C7_All(MSG_UNDEFINED)) = 1
    /\ Cardinality(C11_At(2, 0, 1)) = 1

-----------------------------------------------------------------------------
(* The semantic-token encoding *)

\* the tokens that get an entry, in document order
C12_Emitted ==
    LET all == Flatten(doc.tokens)
        keep == {i \in 1..Len(all) :
                    all[i].type \in {"KEYWORD", "BUILTIN", "IDENTIFIER", "NUMBER", "STRING",
                                     "COMMENT", "OPERATOR", "LOGICAL_OP", "CONSTANT"}}
        nth[n \in 1..Cardinality(keep)] ==
            CHOOSE i \in keep : Cardinality({j \in keep : j < i}) = n - 1
    IN  [n \in 1..Cardinality(keep) |-> all[nth[n]]]

\* the delta-line and delta-column of the n-th entry
C12_DeltaLine(n) == sem_data.data[5 * (n - 1) + 1]
C12_DeltaCol(n) == sem_data.data[5 * (n - 1) + 2]

C12_Answered == pc = "done" /\ sem_data.served

\* C12 as stated: when B starts three columns after the end of the token
\* emitted before it on its line, B's delta-column is 3; the first token
\* emitted on a later line has its start column as delta-column.
C12_DeltaColIsGap ==
    C12_Answered =>
        /\ Len(sem_data.data) = 5 * Len(C12_Emitted)
        /\ \A n \in 2..Len(C12_Emitted) :
              LET a == C12_Emitted[n - 1]
                  b == C12_Emitted[n]
              IN  /\ (a.line = b.line /\ b.col = a.end_col + 3) => C12_DeltaCol(n) = 3
                  /\ a.line < b.line => C12_DeltaCol(n) = b.col

\* C12 amended: B's delta-column is its start column less the start column
\* of the token emitted before it on its line, that is the gap between the two
\* plus the length of the earlier one (3 plus that length for a gap of 3); the
\* first token emitted on a later line has its start column as delta-column.
C12_DeltaColFromStart ==
    C12_Answered =>
        /\ Len(sem_data.data) = 5 * Len(C12_Emitted)
        /\ \A n \in 2..Len(C12_Emitted) :
              LET a == C12_Emitted[n - 1]
                  b == C12_Emitted[n]
              IN  /\ a.line = b.line =>
                        /\ C12_DeltaCol(n) = b.col - a.col
                        /\ C12_DeltaCol(n) = (b.col - a.end_col) + (a.end_col - a.col)
                        /\ b.col = a.end_col + 3 =>
                              C12_DeltaCol(n) = 3 + Len(a.value)
                  /\ a.line < b.line => C12_DeltaCol(n) = b.col

\* 'x   x' and then '  y': the second x, three columns after the first ends,
\* has delta-column 4; y, first on its line, has its column 2
C12_Witness ==
    /\ C12_Answered
    /\ doc.lines = << <<120, 32, 32, 32, 120>>, <<32, 32, 121>> >>
    /\ Len(C12_Emitted) = 3
    /\ C12_DeltaCol(2) = 4
    /\ C12_DeltaLine(3) = 1
    /\ C12_DeltaCol(3) = 2

-----------------------------------------------------------------------------
(* The document cache follows the notifications *)

\* C13: for every URI, when its last notification was an open or a change
\* carrying text, the cache entry is parse_document of that text (for a change,
\* the text of its last content change) and the diagnostics published last are
\* analyze of that entry; when it was a close there is no entry and the
\* diagnostics published last are the empty list; before any notification
\* there is neither.  Each URI's entry follows that URI's notifications only.
C13_CacheIsLatestText ==
    \A u \in URIS :
        /\ notified[u].kind \in {"open", "change"} =>
              /\ doc_cache[u] = <<parse_document(notified[u].text)>>
              /\ published[u] = <<analyze(doc_cache[u][1])>>
              /\ doc_cache[u][1].lines = RawLines(notified[u].text)
        /\ notified[u].kind = "close" =>
              /\ doc_cache[u] = <<>>
              /\ published[u] = << <<>> >>
        /\ notified[u].kind = "none" =>
              /\ doc_cache[u] = <<>>
              /\ published[u] = <<>>

\* one document changed to a text with diagnostics, the other one closed
C13_Witness ==
    /\ notified["file:///a.sans"] = [kind |-> "change", text |-> L_ELSE]
    /\ doc_cache["file:///a.sans"] # <<>>
    /\ published["file:///a.sans"] # <<>>
    /\ published["file:///a.sans"][1] # <<>>
    /\ notified["file:///b.sans"].kind = "close"
    /\ doc_cache["file:///b.sans"] = <<>>
    /\ published["file:///b.sans"] = << <<>> >>

\* C14: the cache holds at most one ParsedDocument per URI, and holds one
\* only for a URI that was opened and not closed since.
C14_CacheOnlyForOpen ==
    \A u \in URIS :
        /\ Len(doc_cache[u]) <= 1
        /\ doc_cache[u] # <<>> => u \in opened

-----------------------------------------------------------------------------
(* Variable lookup for hover and go-to-definition *)

\* the identifier under the request's position, <<>> when there is none or
\* when it names a function
C15_Name ==
    IF request.line >= Len(doc.tokens) THEN <<>>
    ELSE LET toks == doc.tokens[request.line + 1]
             under == {i \in 1..Len(toks) :
                          /\ toks[i].type = "IDENTIFIER"
                          /\ toks[i].col <= request.character
                          /\ request.character < toks[i].end_col}
         IN  IF under = {} THEN <<>>
             ELSE LET n == toks[CHOOSE i \in under : TRUE].value
                  IN  IF \E i \in 1..Len(doc.functions) : doc.functions[i].name = n
                      THEN <<>> ELSE n

\* the variables called n recorded in the scope of a function whose body
\* (after its header line, up to its end_line) holds line l
C15_Scoped(n, l) ==
    {i \in 1..Len(doc.variables) :
        /\ doc.variables[i].name = n
        /\ \E f \in 1..Len(doc.functions) :
              /\ doc.functions[f].line < l
              /\ l <= doc.functions[f].end_line
              /\ doc.variables[i].key = doc.functions[f].name \o <<58>> \o n}

\* the global variables called n
C15_Global(n) ==
    {i \in 1..Len(doc.variables) :
        doc.variables[i].name = n /\ doc.variables[i].key = n}

\* the response is the definition v
C15_Resolves(v) ==
    /\ response # <<>>
    /\ IF request.kind = "hover"
       THEN /\ response[1].content.kind = "variable"
            /\ response[1].content.name = v.name
            /\ response[1].content.scope = v.scope
            /\ response[1].content.line = v.line + 1
       ELSE /\ response[1].line = v.line
            /\ response[1].col = v.col
            /\ response[1].end_col = v.col + Len(v.name)

\* C15: a hover or go-to-definition request on an identifier that names no
\* function answers with the variable of that name recorded in the scope of a
\* function whose body holds the request's line, if there is one; else with
\* the global variable of that name, if there is one; else with nothing.  A
\* request at the first-assignment site of a function-scoped variable answers
\* with that site.
C15_ScopedThenGlobal ==
    (pc = "done" /\ request.kind \in {"hover", "definition"} /\ C15_Name # <<>>) =>
        /\ IF C15_Scoped(C15_Name, request.line) # {}
           THEN \E i \in C15_Scoped(C15_Name, request.line) :
                    C15_Resolves(doc.variables[i])
           ELSE IF C15_Global(C15_Name) # {}
           THEN \E i \in C15_Global(C15_Name) : C15_Resolves(doc.variables[i])
           ELSE response = <<>>
        /\ \A i \in 1..Len(doc.variables) :
              (/\ doc.variables[i].key # doc.variables[i].name
               /\ doc.variables[i].name = C15_Name
               /\ doc.variables[i].line = request.line
               /\ doc.variables[i].col = request.character
               /\ ~C4_IsHeader(doc.lines[request.line + 1])
               /\ doc.lines[request.line + 1] # L_HEADER_GLOBAL)
                  => C15_Resolves(doc.variables[i])

-----------------------------------------------------------------------------
(* C16: which function-keyword lines are registered *)

C16_Sig == significant_tokens(all_tokens[lineno + 1])

\* the symbol loop is about to process a line that starts with the function keyword
C16_OnFunctionLine ==
    /\ pc = "scan"
    /\ lineno < Len(all_tokens)
    /\ C16_Sig # <<>>
    /\ C16_Sig[1].type = "KEYWORD"
    /\ C16_Sig[1].value = KW_FUNCTION

C16_Shape ==
    /\ Len(C16_Sig) >= 4
    /\ C16_Sig[2].type = "IDENTIFIER"
    /\ \E k \in 3..Len(C16_Sig) : C16_Sig[k].type = "PAREN_OPEN"

\* the step enters a function defined on this line, named by the second token
C16_Registered ==
    /\ lineno' = lineno + 1
    /\ \E k \in 1..Len(functions') :
          /\ functions'[k].line = lineno
          /\ functions'[k].name = C16_Sig[2].value
          /\ current_func' = functions'[k].name

C16_Names(fs) == {fs[k].name : k \in 1..Len(fs)}

C16_NoTrace ==
    /\ C16_Names(functions') = C16_Names(functions)
    /\ \A k \in 1..Len(functions') : functions'[k].line # lineno
    /\ variables' = variables

\* the line is at or left of the header of the function it is met in
C16_Dedents ==
    /\ current_func # NoFunc
    /\ line_indents[lineno + 1] <= func_indent

\* C16 as stated: a function-keyword line is registered exactly when it has four
\* significant tokens, an identifier second and an open parenthesis later; an
\* unregistered one adds no function, no variable, and leaves the current
\* function as it was
C16_MalformedHeaderLeavesScope ==
    [][C16_OnFunctionLine =>
          /\ C16_Registered <=> C16_Shape
          /\ ~C16_Shape => (C16_NoTrace /\ current_func' = current_func)]_vars

\* C16, amended: the same, except that an unregistered header at or left of the
\* enclosing header's indentation ends that function, as every significant line
\* there does; deeper than it (or outside any function) the current function stays
C16_MalformedHeaderKeepsDeeperScope ==
    [][C16_OnFunctionLine =>
          /\ C16_Registered <=> C16_Shape
          /\ ~C16_Shape =>
                /\ C16_NoTrace
                /\ current_func' = IF C16_Dedents THEN NoFunc ELSE current_func]_vars

\* an assignment below a malformed header inside the body of f is recorded in f
C16_Witness ==
    /\ pc = "done"
    /\ doc.lines = <<L_HEADER_F_AB, Indent4 \o L_HEADER_BAD, Indent8 \o L_ASSIGN_X>>
    /\ C16_Names(doc.functions) = {<<102>>}
    /\ \E k \in 1..Len(doc.variables) :
          /\ doc.variables[k].key = <<102, 58, 120>>
          /\ doc.variables[k].line = 2

-----------------------------------------------------------------------------
(* C17: which lines insert a variable *)

C17_Sig == significant_tokens(all_tokens[lineno + 1])

\* the symbol loop is about to process a significant line that is not a
\* registered header
C17_OnNonHeaderLine ==
    /\ pc = "scan"
    /\ lineno < Len(all_tokens)
    /\ C17_Sig # <<>>
    /\ ~(C16_OnFunctionLine /\ C16_Shape)

\* first significant token an identifier, second the '=' operator
C17_Shape ==
    /\ Len(C17_Sig) >= 2
    /\ C17_Sig[1].type = "IDENTIFIER"
    /\ C17_Sig[2].type = "OPERATOR"
    /\ C17_Sig[2].value = <<61>>

\* the definition the line stands for, in the scope the line is processed in
C17_Definition ==
    [key |-> IF current_func' # NoFunc
             THEN current_func' \o <<58>> \o C17_Sig[1].value ELSE C17_Sig[1].value,
     name |-> C17_Sig[1].value,
     line |-> lineno,
     col |-> C17_Sig[1].col,
     scope |-> IF current_func' # NoFunc THEN current_func' ELSE GLOBAL]

C17_InsertsIfNew ==
    variables' = IF HasKey(variables, C17_Definition.key) THEN variables
                 ELSE Append(variables, C17_Definition)

\* C17 as stated: a non-header line 'name = ...' inserts the definition of name
\* in the resolved scope unless one is recorded, whatever follows the '=', even
\* nothing; every other non-header line leaves the variable table alone
C17_AssignmentShapeInserts ==
    [][C17_OnNonHeaderLine =>
          IF C17_Shape THEN C17_InsertsIfNew ELSE variables' = variables]_vars

\* C17, amended: the same for lines with at least one significant token after
\* the '='; a line that ends at the '=' inserts nothing
C17_AssignmentWithValueInserts ==
    [][C17_OnNonHeaderLine =>
          IF C17_Shape /\ Len(C17_Sig) >= 3 THEN C17_InsertsIfNew
          ELSE variables' = variables]_vars

\* 'x = 1' in the body of f after a bare 'x =': x is recorded at the later line
C17_Witness ==
    /\ pc = "done"
    /\ doc.lines = <<L_HEADER_F_AB, Indent4 \o L_ASSIGN_BARE, Indent4 \o L_ASSIGN_X>>
    /\ \E k \in 1..Len(doc.variables) :
          /\ doc.variables[k].key = <<102, 58, 120>>
          /\ doc.variables[k].line = 2
          /\ doc.variables[k].col = 4

-----------------------------------------------------------------------------
(* C18: the two states of the builder *)

C18_Sig == significant_tokens(all_tokens[lineno + 1])
C18_Indent == line_indents[lineno + 1]

\* the symbol loop is about to process a line
C18_Scanning == pc = "scan" /\ lineno < Len(all_tokens)

C18_RecognisedHeader == C16_OnFunctionLine /\ C16_Shape

\* a significant line at or left of the header of the function the builder is in
C18_Closing ==
    /\ C18_Sig # <<>>
    /\ current_func # NoFunc
    /\ C18_Indent <= func_indent

\* global, or inside the one function of the table whose header set func_indent
C18_InOneOfTwoStates ==
    \/ current_func = NoFunc /\ func_indent = -1
    \/ /\ current_func # NoFunc
       /\ \E k \in 1..Len(functions) :
             /\ functions[k].name = current_func
             /\ \A m \in 1..Len(functions) : functions[m].name = current_func => m = k
             /\ func_indent = line_indents[functions[k].line + 1]
             /\ func_indent >= 0

\* every function the builder is not in, and that the line does not define anew,
\* keeps its entry, bodyEndLine included
C18_OthersKept ==
    \A k \in 1..Len(functions) :
        (/\ functions[k].name # current_func
         /\ ~(C18_RecognisedHeader /\ functions[k].name = C18_Sig[2].value))
        => \E m \in 1..Len(functions') : functions'[m] = functions[k]

C18_NewVariables == {variables'[k] : k \in (Len(variables) + 1)..Len(variables')}

C18_Transition ==
    C18_Scanning =>
       /\ C18_OthersKept
       /\ IF C18_Sig = <<>>
          THEN UNCHANGED <<functions, variables, current_func, func_indent>>
          ELSE IF C18_RecognisedHeader
          THEN /\ current_func' = C18_Sig[2].value
               /\ func_indent' = C18_Indent
               /\ \E k \in 1..Len(functions') :
                     functions'[k].name = current_func' /\ functions'[k].line = lineno
          ELSE IF C18_Closing
          THEN /\ current_func' = NoFunc
               /\ func_indent' = -1
               /\ \A v \in C18_NewVariables : v.scope = GLOBAL /\ v.key = v.name
          ELSE UNCHANGED <<current_func, func_indent>>

-----------------------------------------------------------------------------
(* C19: the block-structure diagnostics of a function-keyword line *)

C19_IsFunctionLine(k) ==
    LET sig == significant_tokens(doc.tokens[k + 1])
    IN  sig # <<>> /\ sig[1].type = "KEYWORD" /\ sig[1].value = KW_FUNCTION

C19_Text(k) == Strip(doc.lines[k + 1])
C19_Has(k, c) == \E m \in 1..Len(C19_Text(k)) : C19_Text(k)[m] = c

\* some '(' of the line has a ')' to its right
C19_Matched(k) ==
    \E i, j \in 1..Len(C19_Text(k)) :
        i < j /\ C19_Text(k)[i] = 40 /\ C19_Text(k)[j] = 41

C19_Count(text, k) == Cardinality({i \in C7_On(text, k) : C8_WholeLineError(i)})

\* C19: a function-keyword line gets the 'malformed header' error when it has no
\* '(' or does not end with ':', else the 'missing closing parenthesis' error
\* when its '(' has no matching ')', else no block-structure diagnostic
C19_HeaderDiagnostics ==
    pc = "done" =>
        \A k \in 0..(Len(doc.lines) - 1) :
            C19_IsFunctionLine(k) =>
                /\ C19_Count(MSG_STMT_COLON, k) = 0
                /\ C19_Count(MSG_ELSE_COLON, k) = 0
                /\ IF ~C19_Has(k, 40) \/ ~EndsWithChar(C19_Text(k), 58)
                   THEN C19_Count(MSG_FUNC_FORM, k) = 1 /\ C19_Count(MSG_FUNC_PAREN, k) = 0
                   ELSE IF ~C19_Matched(k)
                   THEN C19_Count(MSG_FUNC_FORM, k) = 0 /\ C19_Count(MSG_FUNC_PAREN, k) = 1
                   ELSE C19_Count(MSG_FUNC_FORM, k) = 0 /\ C19_Count(MSG_FUNC_PAREN, k) = 0

-----------------------------------------------------------------------------
(* C20: the orphan check touches only the entry of the line's indentation *)

\* last_if_indent as the loop of _check_orphaned_elif_else holds it before line k
RECURSIVE C20_OpenBefore(_)
C20_OpenBefore(k) ==
    IF k = 0 THEN EmptyDict
    ELSE OrphanStep(C20_OpenBefore(k - 1), doc, k - 1).open

C20_SameEntry(before, after, x) ==
    /\ x \in DOMAIN before <=> x \in DOMAIN after
    /\ x \in DOMAIN before => after[x] = before[x]

\* the diagnostics of line k are those of the loop body run on the dict before it
C20_Reported(k) ==
    LET out == OrphanStep(C20_OpenBefore(k), doc, k).out
    IN  /\ Cardinality(C7_On(MSG_ORPHAN_ELIF, k)) + Cardinality(C7_On(MSG_ORPHAN_ELSE, k))
              = Len(out)
        /\ \A i \in 1..Len(out) : \E j \in 1..Len(diags) : diags[j] = out[i]

\* C20: a blank or comment-only line changes no open-if entry; any other line
\* changes at most the entry of its own indentation, so an entry of a deeper
\* indentation survives a dedent until a line at that indentation closes it
C20_OnlyOwnIndentTouched ==
    pc = "done" =>
        \A k \in 0..(Len(doc.lines) - 1) :
            LET before == C20_OpenBefore(k)
                after == C20_OpenBefore(k + 1)
            IN  /\ C20_Reported(k)
                /\ IsSkipped(Strip(doc.lines[k + 1])) => after = before
                /\ \A x \in (DOMAIN before \cup DOMAIN after) \ {doc.line_indents[k + 1]} :
                      C20_SameEntry(before, after, x)

\* the if at column 4 stays open across 'x = 1' at column 0: the else at column 4
\* is not reported
C20_Witness ==
    /\ pc = "done"
    /\ doc.lines = <<Indent4 \o L_IF, L_ASSIGN_X, Indent4 \o L_ELSE>>
    /\ 4 \in DOMAIN C20_OpenBefore(2)
    /\ C20_OpenBefore(2)[4] = 0
    /\ C7_On(MSG_ORPHAN_ELSE, 2) = {}

-----------------------------------------------------------------------------
(* C21: the shape of the semantic-token array and its decoding *)

C21_Count == Len(sem_data.data) \div 5
C21_Field(n, f) == sem_data.data[5 * (n - 1) + f]

\* the position the first n quintuples decode to: deltas accumulated from (0, 0),
\* the column starting afresh on a line change
RECURSIVE C21_Decode(_)
C21_Decode(n) ==
    IF n = 0 THEN [line |-> 0, col |-> 0]
    ELSE LET prev == C21_Decode(n - 1)
         IN  [line |-> prev.line + C21_Field(n, 1),
              col |-> IF C21_Field(n, 1) > 0 THEN C21_Field(n, 2)
                      ELSE prev.col + C21_Field(n, 2)]

\* everything C21 says but the sign of the same-line delta-columns
C21_Shape ==
    /\ Len(sem_data.data) = 5 * Len(C12_Emitted)
    /\ \A n \in 1..Len(C12_Emitted) :
          /\ C21_Field(n, 5) = 0
          /\ C21_Field(n, 1) >= 0
          /\ C21_Decode(n) = [line |-> C12_Emitted[n].line, col |-> C12_Emitted[n].col]
          /\ C21_Field(n, 3) = C12_Emitted[n].end_col - C12_Emitted[n].col
    /\ \A n \in 2..Len(C12_Emitted) :
          \/ C21_Decode(n - 1).line < C21_Decode(n).line
          \/ /\ C21_Decode(n - 1).line = C21_Decode(n).line
             /\ C21_Decode(n - 1).col < C21_Decode(n).col

\* C21 as stated: five numbers per token of a mapped kind and none for the
\* others, entries in line-then-column order, fifth number 0, delta-line >= 0,
\* decoding gives back line, start column and length of every emitted token,
\* and every entry with delta-line 0 has a delta-column > 0
C21_ArrayDecodesAllPositive ==
    C12_Answered =>
        /\ C21_Shape
        /\ \A n \in 1..C21_Count : C21_Field(n, 1) = 0 => C21_Field(n, 2) > 0

\* C21, amended: the same, the delta-column being > 0 for every entry with
\* delta-line 0 after the first; the first entry carries the first token's own
\* line and column, so its delta-column is 0 for a token at column 0 of line 0
C21_ArrayDecodesPositiveAfterFirst ==
    C12_Answered =>
        /\ C21_Shape
        /\ \A n \in 2..C21_Count : C21_Field(n, 1) = 0 => C21_Field(n, 2) > 0
        /\ C21_Count >= 1 =>
              /\ C21_Field(1, 1) = C12_Emitted[1].line
              /\ C21_Field(1, 2) = C12_Emitted[1].col

\* 'x = 1', a blank line, '    a = x': six quintuples; a is two lines down at
\* column 4, and both '=' are two columns after the token before them
C21_Witness ==
    /\ C12_Answered
    /\ doc.lines = <<L_ASSIGN_X, L_BLANK, Indent4 \o L_ASSIGN_A_X>>
    /\ C21_Count = 6
    /\ C21_Field(1, 1) = 0 /\ C21_Field(1, 2) = 0
    /\ C21_Field(4, 1) = 2 /\ C21_Field(4, 2) = 4
    /\ C21_Field(5, 1) = 0 /\ C21_Field(5, 2) = 2
    /\ C21_Decode(6) = [line |-> 2, col |-> 8]

-----------------------------------------------------------------------------
(* C22: priority and maximal munch of the lexer *)

C22_Digits == (48..57) \cup (2406..2415)
C22_Letters == (2304..2431) \cup {95} \cup (65..90) \cup (97..122)
C22_Continuation == C22_Letters \cup C22_Digits
C22_Blanks == {32, 9}
C22_IdentClass == {"KEYWORD", "BUILTIN", "CONSTANT", "LOGICAL_OP", "IDENTIFIER"}

\* the token is a run of characters of S that the next character does not continue
C22_MaximalRun(line, tok, S) ==
    /\ \A m \in (tok.col + 1)..tok.end_col : line[m] \in S
    /\ tok.end_col < Len(line) => line[tok.end_col + 1] \notin S

C22_LineOk(line, toks) ==
    /\ \A i \in 1..Len(toks) :
          LET tok == toks[i]
              first == line[tok.col + 1]
          IN  /\ first \in C22_Digits <=> tok.type = "NUMBER"
              /\ tok.type = "NUMBER" => C22_MaximalRun(line, tok, C22_Digits)
              /\ (first \in C22_Letters \ C22_Digits) <=> tok.type \in C22_IdentClass
              /\ tok.type \in C22_IdentClass => C22_MaximalRun(line, tok, C22_Continuation)
              /\ first \in C22_Blanks <=> tok.type = "WHITESPACE"
              /\ tok.type = "WHITESPACE" => C22_MaximalRun(line, tok, C22_Blanks)
    /\ \A i \in 1..(Len(toks) - 1) :
          /\ ~(toks[i].type = "WHITESPACE" /\ toks[i + 1].type = "WHITESPACE")
          /\ ~(toks[i].type = "NUMBER" /\ toks[i + 1].type = "NUMBER")
          /\ toks[i].type \in C22_IdentClass =>
                toks[i + 1].type \notin C22_IdentClass \cup {"NUMBER"}

\* C22: on every lexed line, a token that starts with a digit, ASCII or native,
\* is a number and is the maximal run of digits; an identifier-class token starts
\* with a letter that is no digit and is the maximal run of continuation
\* characters; a whitespace token is the maximal run of spaces and tabs; no two
\* neighbours are both whitespace or both numbers, and no identifier-class token
\* is directly followed by an identifier-class or a number token
C22_PriorityAndMaximalMunch ==
    \A k \in 1..Len(all_tokens) : C22_LineOk(raw_lines[k], all_tokens[k])

\* a native digit, then 'a1': a number of one glyph and the identifier a1
C22_Witness ==
    /\ pc = "done"
    /\ raw_lines = << <<2407, 97, 49>> >>
    /\ Len(all_tokens[1]) = 2
    /\ all_tokens[1][1].type = "NUMBER" /\ all_tokens[1][1].value = <<2407>>
    /\ all_tokens[1][2].type = "IDENTIFIER" /\ all_tokens[1][2].value = <<97, 49>>

=============================================================================
